---------------------------- MODULE Spec2Model ----------------------------
(***************************************************************************)
(* A model of python_statement/statement.py: the feed batch (Feed.batch,   *)
(* Feed.from_rss, Feed.parse_rss, Feed.parse_atom), the scraper entry      *)
(* points (Scraper.media_body, Scraper.member_scrapers) and the result     *)
(* filter (Utils.remove_generic_urls).                                     *)
(*                                                                         *)
(* Text is modelled as a sequence of one-character strings, so that the    *)
(* URL functions (urlparse, urljoin) are computed on the text and not      *)
(* assumed.                                                                *)
(***************************************************************************)
EXTENDS Integers, Sequences, FiniteSets, TLC

\* ------------------------------------------------------------------------
\* Bounds of the model
\* ------------------------------------------------------------------------
\* longest list handed to remove_generic_urls
MaxLen == 3
\* longest list of feed URLs handed to Feed.batch
MaxUrls == 2
\* longest list of page URLs handed to Scraper.media_body
MaxSources == 3
\* most calls of Feed.batch made one after the other
MaxCalls == 2
\* most items, entries, blocks, links or posts of a document handed to a
\* parser or an adapter called on its own
MaxItems == 2

\* ------------------------------------------------------------------------
\* Text helpers (Python str methods)
\* ------------------------------------------------------------------------
\* Python's None where a dict or a list is expected
None == [None |-> TRUE]
\* Python's None where text is expected (no text has a four-letter character)
NoneText == <<"None">>

Min(a, b) == IF a <= b THEN a ELSE b

\* Op(v), with v computed once before Op is applied to it
Value(Op(_), v) == CHOOSE y \in {Op(x) : x \in {v}} : TRUE

\* s[i:] with a 1-based first index
Tail2(s, i) == SubSeq(s, i, Len(s))

\* s.startswith(p)
StartsWith(s, p) == Len(s) >= Len(p) /\ SubSeq(s, 1, Len(p)) = p

\* s.find(c, start): 1-based index of the first c at or after start, 0 if none
Find(s, c, start) ==
    LET hits == {i \in start..Len(s) : s[i] = c}
    IN  IF hits = {} THEN 0 ELSE CHOOSE i \in hits : \A j \in hits : i <= j

\* s.rfind(c): 1-based index of the last c, 0 if none
RFind(s, c) ==
    LET hits == {i \in 1..Len(s) : s[i] = c}
    IN  IF hits = {} THEN 0 ELSE CHOOSE i \in hits : \A j \in hits : i >= j

\* s.split(c): the pieces between the occurrences of the character c
Split(s, c) ==
    LET cuts == {k \in 1..Len(s) : s[k] = c}
        \* the j-th occurrence of c, Len(s) + 1 after the last one
        Cut(j) == IF j > Cardinality(cuts) THEN Len(s) + 1
                  ELSE CHOOSE k \in cuts : Cardinality({m \in cuts : m < k}) = j - 1
    IN  [j \in 1..(Cardinality(cuts) + 1) |->
            SubSeq(s, (IF j = 1 THEN 1 ELSE Cut(j - 1) + 1), Cut(j) - 1)]

\* c.join(parts)
RECURSIVE Join(_, _)
Join(parts, c) ==
    IF parts = <<>> THEN <<>>
    ELSE IF Len(parts) = 1 THEN parts[1]
    ELSE parts[1] \o <<c>> \o Join(Tail(parts), c)

Letters ==
    {"a", "b", "c", "d", "e", "f", "g", "h", "i", "j", "k", "l", "m", "n", "o",
     "p", "q", "r", "s", "t", "u", "v", "w", "x", "y", "z", "A", "F", "R", "S"}
Digits == {"0", "1", "2", "3", "4", "5", "6", "7", "8", "9"}
SchemeChars == Letters \cup Digits \cup {"+", "-", "."}

\* ------------------------------------------------------------------------
\* urllib.parse.urlparse
\* ------------------------------------------------------------------------
\* _splitnetloc(url, 2): the authority ends at the first of / ? #
SplitNetloc(u) ==
    LET ends == {Find(u, c, 3) : c \in {"/", "?", "#"}} \ {0}
        delim == IF ends = {} THEN Len(u) + 1
                 ELSE CHOOSE i \in ends : \A j \in ends : i <= j
    IN  [netloc |-> SubSeq(u, 3, delim - 1), rest |-> Tail2(u, delim)]

\* _splitparams(url): the ;params of the last path segment
SplitParams(u) ==
    LET slash == RFind(u, "/")
        i == Find(u, ";", IF slash = 0 THEN 1 ELSE slash)
    IN  IF i = 0 THEN [path |-> u, params |-> <<>>]
        ELSE [path |-> SubSeq(u, 1, i - 1), params |-> Tail2(u, i + 1)]

\* urlsplit: the scheme, when the text before the first colon is one
SplitScheme(url, default) ==
    LET colon == Find(url, ":", 1)
    IN  IF /\ colon > 1
           /\ url[1] \in Letters
           /\ \A k \in 1..(colon - 1) : url[k] \in SchemeChars
        THEN [scheme |-> SubSeq(url, 1, colon - 1), rest |-> Tail2(url, colon + 1)]
        ELSE [scheme |-> default, rest |-> url]

\* urlsplit: the authority, when the rest starts with //
SplitAuthority(u) ==
    IF StartsWith(u, <<"/", "/">>) THEN SplitNetloc(u)
    ELSE [netloc |-> <<>>, rest |-> u]

\* urlsplit: the fragment after the first #
SplitFragment(u) ==
    LET hash == Find(u, "#", 1)
    IN  IF hash = 0 THEN [rest |-> u, fragment |-> <<>>]
        ELSE [rest |-> SubSeq(u, 1, hash - 1), fragment |-> Tail2(u, hash + 1)]

\* urlsplit: the query after the first ?
SplitQuery(u) ==
    LET qm == Find(u, "?", 1)
    IN  IF qm = 0 THEN [rest |-> u, query |-> <<>>]
        ELSE [rest |-> SubSeq(u, 1, qm - 1), query |-> Tail2(u, qm + 1)]

\* urlparse(url, scheme=default); urlparse(None) gives six empty fields
UrlParseDefault(url, default) ==
    IF url = NoneText
    THEN [scheme |-> <<>>, netloc |-> <<>>, path |-> <<>>, params |-> <<>>,
          query |-> <<>>, fragment |-> <<>>]
    ELSE
    Value(LAMBDA s :
     Value(LAMBDA a :
      Value(LAMBDA f :
       Value(LAMBDA q :
        Value(LAMBDA sp :
               [scheme |-> s.scheme, netloc |-> a.netloc, path |-> sp.path,
                params |-> sp.params, query |-> q.query, fragment |-> f.fragment],
              SplitParams(q.rest)),
        SplitQuery(f.rest)),
       SplitFragment(a.rest)),
      SplitAuthority(s.rest)),
     SplitScheme(url, default))

UrlParse(url) == UrlParseDefault(url, <<>>)

\* urlunparse(parts)
UrlUnparse(p) ==
    LET u0 == IF p.params = <<>> THEN p.path ELSE p.path \o <<";">> \o p.params
        u1 == IF p.netloc # <<>> \/ (p.scheme # <<>> /\ ~StartsWith(u0, <<"/", "/">>))
              THEN <<"/", "/">> \o p.netloc
                   \o (IF u0 # <<>> /\ u0[1] # "/" THEN <<"/">> ELSE <<>>) \o u0
              ELSE u0
        u2 == IF p.scheme # <<>> THEN p.scheme \o <<":">> \o u1 ELSE u1
        u3 == IF p.query # <<>> THEN u2 \o <<"?">> \o p.query ELSE u2
    IN  IF p.fragment # <<>> THEN u3 \o <<"#">> \o p.fragment ELSE u3

\* the dot-segment removal loop of urljoin
RECURSIVE ResolveSegments(_, _)
ResolveSegments(segments, resolved) ==
    IF segments = <<>> THEN resolved
    ELSE LET seg == Head(segments)
         IN  IF seg = <<".", ".">>
             THEN ResolveSegments(Tail(segments),
                      IF resolved = <<>> THEN <<>>
                      ELSE SubSeq(resolved, 1, Len(resolved) - 1))
             ELSE IF seg = <<".">>
             THEN ResolveSegments(Tail(segments), resolved)
             ELSE ResolveSegments(Tail(segments), Append(resolved, seg))

\* segments[1:-1] = filter(None, segments[1:-1])
DropEmptyInner(segments) ==
    IF Len(segments) <= 2 THEN segments
    ELSE <<segments[1]>>
         \o SelectSeq(SubSeq(segments, 2, Len(segments) - 1), LAMBDA s : s # <<>>)
         \o <<segments[Len(segments)]>>

\* urljoin once base and url are parsed (b, r)
UrlJoinParsed(b, r, url) ==
    LET baseParts0 == Split(b.path, "/")
        baseParts == IF baseParts0[Len(baseParts0)] # <<>>
                     THEN SubSeq(baseParts0, 1, Len(baseParts0) - 1)
                     ELSE baseParts0
        segments == IF r.path # <<>> /\ r.path[1] = "/"
                    THEN Split(r.path, "/")
                    ELSE DropEmptyInner(baseParts \o Split(r.path, "/"))
        resolved0 == ResolveSegments(segments, <<>>)
        last == segments[Len(segments)]
        resolved == IF last = <<".">> \/ last = <<".", ".">>
                    THEN Append(resolved0, <<>>) ELSE resolved0
        joined == Join(resolved, "/")
    IN  IF r.scheme # b.scheme \/ r.scheme = <<>> THEN url
        ELSE IF r.netloc # <<>> THEN UrlUnparse(r)
        ELSE IF r.path = <<>> /\ r.params = <<>>
        THEN UrlUnparse([scheme |-> r.scheme, netloc |-> b.netloc,
                         path |-> b.path, params |-> b.params,
                         query |-> IF r.query = <<>> THEN b.query ELSE r.query,
                         fragment |-> r.fragment])
        ELSE UrlUnparse([scheme |-> r.scheme, netloc |-> b.netloc,
                         path |-> IF joined = <<>> THEN <<"/">> ELSE joined,
                         params |-> r.params, query |-> r.query,
                         fragment |-> r.fragment])

\* urllib.parse.urljoin(base, url) for a base and url whose scheme, when
\* present, is http or https (both in uses_relative and uses_netloc)
UrlJoin(base, url) ==
    IF base = <<>> THEN url
    ELSE IF url = <<>> THEN base
    ELSE Value(LAMBDA b :
                   Value(LAMBDA r : UrlJoinParsed(b, r, url),
                         UrlParseDefault(url, b.scheme)),
               UrlParse(base))

\* Utils.absolute_link(url, link)
absolute_link(url, link) ==
    IF StartsWith(link, <<"h", "t", "t", "p">>) THEN link ELSE UrlJoin(url, link)

\* ------------------------------------------------------------------------
\* Results of calls: a value returned, or an exception raised
\* ------------------------------------------------------------------------
Return(v) == [exc |-> "", value |-> v]
Raise(e) == [exc |-> e, value |-> None]

\* Utils.absolute_link(url, link) as a call: None has no startswith
absolute_link_call(url, link) ==
    IF link = NoneText THEN Raise("AttributeError")
    ELSE Return(absolute_link(url, link))

\* ------------------------------------------------------------------------
\* Utils.remove_generic_urls
\* ------------------------------------------------------------------------
\* a Python list as an argument that may also be None
PyList(seq) == [list |-> seq]

\* the truth value of a dict or None
Truthy(r) == r # None /\ DOMAIN r # {}

\* ['/news/', '/news']
GenericPaths == {<<"/", "n", "e", "w", "s", "/">>, <<"/", "n", "e", "w", "s">>}

\* remove_generic_urls with '/news' missing from the list of generic paths
remove_generic_urls_one_path(results) ==
    IF results = None \/ results.list = <<>> THEN <<>>
    ELSE LET filtered_results ==
                 SelectSeq(results.list, LAMBDA r : Truthy(r) /\ "url" \in DOMAIN r)
         IN  SelectSeq(filtered_results,
                       LAMBDA r : UrlParse(r.url).path # <<"/", "n", "e", "w", "s", "/">>)

RECURSIVE RemoveWhileIterating(_, _)
\* for r in results: if r is unwanted: results.remove(r)
\* (the element that follows a removed one is never looked at)
RemoveWhileIterating(list, i) ==
    IF i > Len(list) THEN list
    ELSE IF /\ Truthy(list[i])
            /\ "url" \in DOMAIN list[i]
            /\ UrlParse(list[i].url).path \notin GenericPaths
         THEN RemoveWhileIterating(list, i + 1)
         ELSE RemoveWhileIterating(
                  SubSeq(list, 1, i - 1) \o SubSeq(list, i + 1, Len(list)), i + 1)

\* remove_generic_urls written as a removal from the list being iterated
remove_generic_urls_in_place(results) ==
    IF results = None \/ results.list = <<>> THEN <<>>
    ELSE RemoveWhileIterating(results.list, 1)

\* remove_generic_urls giving its records last first
remove_generic_urls_reversed(results) ==
    IF results = None \/ results.list = <<>> THEN <<>>
    ELSE LET kept == SelectSeq(results.list,
                               LAMBDA r : /\ Truthy(r)
                                          /\ "url" \in DOMAIN r
                                          /\ UrlParse(r.url).path \notin GenericPaths)
         IN  [k \in 1..Len(kept) |-> kept[Len(kept) + 1 - k]]

\* the list results after the call: the two comprehensions build lists of
\* their own and results is not written to
results_after_filter(results) == results

remove_generic_urls(results) ==
    IF results = None \/ results.list = <<>> THEN <<>>
    ELSE LET filtered_results ==
                 SelectSeq(results.list, LAMBDA r : Truthy(r) /\ "url" \in DOMAIN r)
         IN  SelectSeq(filtered_results,
                       LAMBDA r : UrlParse(r.url).path \notin GenericPaths)

\* ------------------------------------------------------------------------
\* Inputs of the filter: URLs written from their parts
\* ------------------------------------------------------------------------
XGov == <<"x", ".", "g", "o", "v">>
Http == <<"h", "t", "t", "p">>

UrlPart(scheme, netloc, path, query, fragment) ==
    [scheme |-> scheme, netloc |-> netloc, path |-> path, query |-> query,
     fragment |-> fragment]

\* the text of a URL with these parts (RFC 3986, section 5.3)
Compose(p) ==
    (IF p.scheme = <<>> THEN <<>> ELSE p.scheme \o <<":">>)
    \o (IF p.netloc = <<>> THEN <<>> ELSE <<"/", "/">> \o p.netloc)
    \o p.path
    \o (IF p.query = <<>> THEN <<>> ELSE <<"?">> \o p.query)
    \o (IF p.fragment = <<>> THEN <<>> ELSE <<"#">> \o p.fragment)

FilterUrlParts ==
    { UrlPart(Http, XGov, <<"/", "n", "e", "w", "s", "/">>, <<>>, <<>>),
      UrlPart(Http, XGov, <<"/", "n", "e", "w", "s">>, <<>>, <<>>),
      UrlPart(Http, XGov, <<"/", "n", "e", "w", "s">>, <<"p">>, <<>>),
      UrlPart(Http, XGov, <<"/", "n", "e", "w", "s", "/">>, <<>>, <<"f">>),
      UrlPart(Http, XGov, <<"/", "n", "e", "w", "s", "/", "9">>, <<>>, <<>>),
      UrlPart(Http, XGov, <<>>, <<>>, <<>>),
      UrlPart(<<>>, <<>>, <<"/", "n", "e", "w", "s">>, <<>>, <<>>),
      UrlPart(<<>>, <<>>, <<"n", "e", "w", "s">>, <<>>, <<>>) }

\* what a list handed to the filter may hold: None, an empty dict, a dict
\* without 'url', a dict whose 'url' is None, and dicts with a URL
FilterElems ==
    {None, <<>>, [title |-> "Missing URL"], [url |-> NoneText]}
    \cup {[url |-> Compose(p)] : p \in FilterUrlParts}

RECURSIVE SeqsUpTo(_, _)
\* the sequences over S of length at most n
SeqsUpTo(S, n) ==
    IF n = 0 THEN {<<>>}
    ELSE LET shorter == SeqsUpTo(S, n - 1)
         IN  shorter \cup {Append(q, e) : q \in shorter, e \in S}

FilterInputs == {None} \cup {PyList(q) : q \in SeqsUpTo(FilterElems, MaxLen)}

\* datetime.date(y, m, d)
Date(y, m, d) == [year |-> y, month |-> m, day |-> d]

\* ------------------------------------------------------------------------
\* Date parsing (dateutil.parser.parse, datetime.strptime)
\* ------------------------------------------------------------------------
IsDigits(s) == s # <<>> /\ \A k \in 1..Len(s) : s[k] \in Digits

DigitValue(c) ==
    CASE c = "0" -> 0 [] c = "1" -> 1 [] c = "2" -> 2 [] c = "3" -> 3
      [] c = "4" -> 4 [] c = "5" -> 5 [] c = "6" -> 6 [] c = "7" -> 7
      [] c = "8" -> 8 [] c = "9" -> 9

RECURSIVE ToInt(_)
\* int(s) of a text of digits
ToInt(s) ==
    IF s = <<>> THEN 0
    ELSE 10 * ToInt(SubSeq(s, 1, Len(s) - 1)) + DigitValue(s[Len(s)])

\* sub in s
Contains(s, sub) ==
    \E k \in 1..(Len(s) - Len(sub) + 1) : SubSeq(s, k, k + Len(sub) - 1) = sub

\* s.split(sub)[0]
BeforeFirst(s, sub) ==
    LET hits == {k \in 1..(Len(s) - Len(sub) + 1) : SubSeq(s, k, k + Len(sub) - 1) = sub}
    IN  IF hits = {} THEN s
        ELSE SubSeq(s, 1, (CHOOSE k \in hits : \A j \in hits : k <= j) - 1)

\* Mon, 01 Jan 2024 00:00:00 GMT
RfcDateText ==
    <<"M", "o", "n", ",", " ", "0", "1", " ", "J", "a", "n", " ", "2", "0", "2",
    "4", " ", "0", "0", ":", "0", "0", ":", "0", "0", " ", "G", "M", "T">>

\* dateutil.parser.parse(text).date() on the date texts of the model: the
\* RFC 822 text above, month/day/year in digits, and a number of eleven
\* digits, which dateutil reads as a year too large for a C int (OverflowError, as its
\* documentation says); any other text is a ParserError, a ValueError.
DateutilParse(text) ==
    LET parts == Split(text, "/")
    IN  IF text = RfcDateText THEN Return(Date(2024, 1, 1))
        ELSE IF IsDigits(text) /\ Len(text) = 11
        THEN Raise("OverflowError")
        ELSE IF /\ Len(parts) = 3
                /\ \A k \in 1..3 : IsDigits(parts[k])
                /\ Len(parts[3]) = 4
                /\ ToInt(parts[1]) \in 1..12
                /\ ToInt(parts[2]) \in 1..31
        THEN Return(Date(ToInt(parts[3]), ToInt(parts[1]), ToInt(parts[2])))
        ELSE Raise("ValueError")

\* datetime.strptime(text, "%Y-%m-%dT%H:%M:%S%z").date() on texts with
\* two-digit fields: YYYY-MM-DDTHH:MM:SS+HHMM, anything else a ValueError
StrptimeIsoOffset(text) ==
    IF /\ Len(text) = 24
       /\ \A k \in {1, 2, 3, 4, 6, 7, 9, 10, 12, 13, 15, 16, 18, 19, 21, 22, 23, 24} :
              text[k] \in Digits
       /\ text[5] = "-" /\ text[8] = "-" /\ text[11] = "T"
       /\ text[14] = ":" /\ text[17] = ":"
       /\ text[20] \in {"+", "-"}
       /\ ToInt(SubSeq(text, 6, 7)) \in 1..12
       /\ ToInt(SubSeq(text, 9, 10)) \in 1..31
       /\ ToInt(SubSeq(text, 12, 13)) \in 0..23
       /\ ToInt(SubSeq(text, 15, 16)) \in 0..59
       /\ ToInt(SubSeq(text, 18, 19)) \in 0..59
    THEN Return(Date(ToInt(SubSeq(text, 1, 4)), ToInt(SubSeq(text, 6, 7)),
                     ToInt(SubSeq(text, 9, 10))))
    ELSE Raise("ValueError")

\* the characters str.strip() removes and \s matches
WhiteSpace == {" ", "\n", "\t"}

\* text.strip()
Strip(text) ==
    LET inked == {k \in 1..Len(text) : text[k] \notin WhiteSpace}
    IN  IF inked = {} THEN <<>>
        ELSE SubSeq(text, CHOOSE k \in inked : \A j \in inked : k <= j,
                          CHOOSE k \in inked : \A j \in inked : j <= k)

\* text.lstrip()
LStrip(text) ==
    LET inked == {k \in 1..Len(text) : text[k] \notin WhiteSpace}
    IN  IF inked = {} THEN <<>>
        ELSE SubSeq(text, CHOOSE k \in inked : \A j \in inked : k <= j, Len(text))

\* text.replace(old, new) for single characters
Replace(text, old, new) ==
    [k \in 1..Len(text) |-> IF text[k] = old THEN new ELSE text[k]]

UpperCase == <<"A", "B", "C", "D", "E", "F", "G", "H", "I", "J", "K", "L", "M",
               "N", "O", "P", "Q", "R", "S", "T", "U", "V", "W", "X", "Y", "Z">>

LowerCase == <<"a", "b", "c", "d", "e", "f", "g", "h", "i", "j", "k", "l", "m",
               "n", "o", "p", "q", "r", "s", "t", "u", "v", "w", "x", "y", "z">>

\* text.lower()
Lower(text) ==
    [k \in 1..Len(text) |->
        IF \E n \in 1..26 : UpperCase[n] = text[k]
        THEN LowerCase[CHOOSE n \in 1..26 : UpperCase[n] = text[k]]
        ELSE text[k]]

DigitText == <<"0", "1", "2", "3", "4", "5", "6", "7", "8", "9">>

\* str(n) of a natural number
RECURSIVE IntText(_)
IntText(n) ==
    IF n < 10 THEN <<DigitText[n + 1]>>
    ELSE Append(IntText(n \div 10), DigitText[(n % 10) + 1])

\* calendar.month_name in lower case, as strptime compares it (IGNORECASE)
MonthNames ==
    <<<<"j", "a", "n", "u", "a", "r", "y">>,
      <<"f", "e", "b", "r", "u", "a", "r", "y">>,
      <<"m", "a", "r", "c", "h">>,
      <<"a", "p", "r", "i", "l">>,
      <<"m", "a", "y">>,
      <<"j", "u", "n", "e">>,
      <<"j", "u", "l", "y">>,
      <<"a", "u", "g", "u", "s", "t">>,
      <<"s", "e", "p", "t", "e", "m", "b", "e", "r">>,
      <<"o", "c", "t", "o", "b", "e", "r">>,
      <<"n", "o", "v", "e", "m", "b", "e", "r">>,
      <<"d", "e", "c", "e", "m", "b", "e", "r">>>>

\* the directive %m: 1[0-2]|0[1-9]|[1-9]; 0 when the text is none of them
MonthToken(s) ==
    IF IsDigits(s) /\ Len(s) \in 1..2 /\ ToInt(s) \in 1..12 THEN ToInt(s) ELSE 0

\* the directive %d: 3[01]|[12]\d|0[1-9]|[1-9]| [1-9]; 0 when none of them
DayToken(s) ==
    IF IsDigits(s) /\ Len(s) \in 1..2 /\ ToInt(s) \in 1..31 THEN ToInt(s)
    ELSE IF Len(s) = 2 /\ s[1] = " " /\ s[2] \in Digits /\ s[2] # "0"
    THEN DigitValue(s[2])
    ELSE 0

IsLeap(y) == y % 4 = 0 /\ (y % 100 # 0 \/ y % 400 = 0)

DaysInMonth(y, m) ==
    IF m = 2 THEN (IF IsLeap(y) THEN 29 ELSE 28)
    ELSE IF m \in {4, 6, 9, 11} THEN 30 ELSE 31

\* the date strptime builds from the fields it matched: a field that did
\* not match, or a day the month does not have, is a ValueError
StrptimeDate(y, m, d) ==
    IF y >= 1 /\ m \in 1..12 /\ d >= 1 /\ d <= DaysInMonth(y, m)
    THEN Return(Date(y, m, d))
    ELSE Raise("ValueError")

\* the directive %y: two digits, 69..99 in the 1900s and 00..68 in the 2000s
YearOfCentury(s) ==
    IF IsDigits(s) /\ Len(s) = 2
    THEN (IF ToInt(s) >= 69 THEN 1900 + ToInt(s) ELSE 2000 + ToInt(s))
    ELSE 0

\* the directive %Y: four digits
YearToken(s) == IF IsDigits(s) /\ Len(s) = 4 THEN ToInt(s) ELSE 0

\* datetime.strptime(text, "%m/%d/%y").date()
StrptimeSlashes(text) ==
    LET parts == Value(LAMBDA t : Split(t, "/"), text)
    IN  IF Len(parts) # 3 THEN Raise("ValueError")
        ELSE StrptimeDate(YearOfCentury(parts[3]), MonthToken(parts[1]),
                          DayToken(parts[2]))

\* datetime.strptime(text, "%m.%d.%y").date()
StrptimeDots(text) ==
    LET parts == Value(LAMBDA t : Split(t, "."), text)
    IN  IF Len(parts) # 3 THEN Raise("ValueError")
        ELSE StrptimeDate(YearOfCentury(parts[3]), MonthToken(parts[1]),
                          DayToken(parts[2]))

\* datetime.strptime(text, "%m/%d/%Y").date()
StrptimeSlashesYear(text) ==
    LET parts == Value(LAMBDA t : Split(t, "/"), text)
    IN  IF Len(parts) # 3 THEN Raise("ValueError")
        ELSE StrptimeDate(YearToken(parts[3]), MonthToken(parts[1]),
                          DayToken(parts[2]))

\* datetime.strptime(text, "%Y-%m-%d").date()
StrptimeDashes(text) ==
    LET parts == Value(LAMBDA t : Split(t, "-"), text)
    IN  IF Len(parts) # 3 THEN Raise("ValueError")
        ELSE StrptimeDate(YearToken(parts[1]), MonthToken(parts[2]),
                          DayToken(parts[3]))

\* datetime.strptime(text, "%B %d, %Y").date(): a month name, white space,
\* the day, a comma, white space, the year
StrptimeMonthName(text) ==
    LET months == {m \in 1..12 :
                      /\ Len(text) >= Len(MonthNames[m])
                      /\ Lower(SubSeq(text, 1, Len(MonthNames[m]))) = MonthNames[m]}
    IN  IF months = {} THEN Raise("ValueError")
        ELSE LET m == CHOOSE x \in months : TRUE
                 rest == SubSeq(text, Len(MonthNames[m]) + 1, Len(text))
                 afterSpace == LStrip(rest)
                 day == BeforeFirst(afterSpace, <<",">>)
                 afterComma == SubSeq(afterSpace, Len(day) + 2, Len(afterSpace))
                 year == LStrip(afterComma)
             IN  IF \/ rest = <<>> \/ rest[1] \notin WhiteSpace
                    \/ ~Contains(afterSpace, <<",">>)
                    \/ afterComma = <<>> \/ afterComma[1] \notin WhiteSpace
                 THEN Raise("ValueError")
                 ELSE StrptimeDate(YearToken(year), m, DayToken(day))

\* ------------------------------------------------------------------------
\* Feed.date_from_rss_item
\* ------------------------------------------------------------------------
\* mikulski.senate.gov
MikulskiHost ==
    <<"m", "i", "k", "u", "l", "s", "k", "i", ".", "s", "e", "n", "a", "t", "e",
    ".", "g", "o", "v">>
\* -2014
Dash2014 ==
    <<"-", "2", "0", "1", "4">>
\* .cfm
DotCfm ==
    <<".", "c", "f", "m">>

\* An RSS item: the text of each child element, NoneText for an element the
\* item does not have
RssItem(link, title, pubDate, pubdate) ==
    [link |-> link, title |-> title, pubDate |-> pubDate, pubdate |-> pubdate]

\* the third step: the date in the last path segment of a Mikulski link
MikulskiDate(item) ==
    IF /\ item.link # NoneText
       /\ item.link # <<>>
       /\ Contains(item.link, MikulskiHost)
       /\ Contains(item.link, Dash2014)
    THEN LET segs == Split(item.link, "/")
             pieces == Split(segs[Len(segs)], "-")
             date_part == SubSeq(pieces, 1, Min(3, Len(pieces)))
             date_str == BeforeFirst(Join(date_part, "/"), DotCfm)
             parsed == DateutilParse(date_str)
         IN  IF parsed.exc \in {"ValueError", "IndexError"} THEN Return(None)
             ELSE parsed
    ELSE Return(None)

\* the second step: the pubdate element
PubdateDate(item) ==
    IF item.pubdate # NoneText /\ item.pubdate # <<>>
    THEN LET parsed == DateutilParse(item.pubdate)
         IN  IF parsed.exc \in {"ValueError", "TypeError"} THEN MikulskiDate(item)
             ELSE parsed
    ELSE MikulskiDate(item)

date_from_rss_item(item) ==
    IF item.pubDate # NoneText /\ item.pubDate # <<>>
    THEN LET parsed == DateutilParse(item.pubDate)
         IN  IF parsed.exc \in {"ValueError", "TypeError"} THEN PubdateDate(item)
             ELSE parsed
    ELSE PubdateDate(item)

\* ------------------------------------------------------------------------
\* Feed.parse_rss, Feed.parse_atom, Feed.from_rss
\* ------------------------------------------------------------------------
\* http://www.burr.senate.gov/public/index.cfm?FuseAction=RSS.Feed
BurrFeedUrl ==
    <<"h", "t", "t", "p", ":", "/", "/", "w", "w", "w", ".", "b", "u", "r", "r",
    ".", "s", "e", "n", "a", "t", "e", ".", "g", "o", "v", "/", "p", "u", "b",
    "l", "i", "c", "/", "i", "n", "d", "e", "x", ".", "c", "f", "m", "?", "F",
    "u", "s", "e", "A", "c", "t", "i", "o", "n", "=", "R", "S", "S", ".", "F",
    "e", "e", "d">>

\* http://www.johanns.senate.gov/public/?a=RSS.Feed
JohannsFeedUrl ==
    <<"h", "t", "t", "p", ":", "/", "/", "w", "w", "w", ".", "j", "o", "h", "a",
    "n", "n", "s", ".", "s", "e", "n", "a", "t", "e", ".", "g", "o", "v", "/",
    "p", "u", "b", "l", "i", "c", "/", "?", "a", "=", "R", "S", "S", ".", "F",
    "e", "e", "d">>

\* http://www.burr.senate.gov/public/
BurrBase ==
    <<"h", "t", "t", "p", ":", "/", "/", "w", "w", "w", ".", "b", "u", "r", "r",
    ".", "s", "e", "n", "a", "t", "e", ".", "g", "o", "v", "/", "p", "u", "b",
    "l", "i", "c", "/">>

\* A parsed document: whether it has a feed element, its item elements and
\* its entry elements, in document order
Document(feed, items, entries) == [feed |-> feed, items |-> items, entries |-> entries]

\* An Atom entry: link is None (no link element) or its attributes; the other
\* fields are the text of the child element, NoneText if it is absent
AtomEntry(link, title, published, updated) ==
    [link |-> link, title |-> title, published |-> published, updated |-> updated]

\* the dict parse_rss and parse_atom build
Record(source, url, title, date, domain) ==
    [source |-> source, url |-> url, title |-> title, date |-> date, domain |-> domain]

\* the link of an RSS item made absolute, with the two special cases
RssLink(url, link) ==
    IF url = BurrFeedUrl THEN BurrBase \o link
    ELSE IF url = JohannsFeedUrl THEN Tail2(link, 38)
    ELSE absolute_link(url, link)

\* a loop that also passes over an item without title
RssResultTitleRequired(item, url) ==
    IF item.link = NoneText \/ item.title = NoneText
    THEN [skip |-> TRUE, exc |-> "", value |-> None]
    ELSE Value(LAMBDA date :
                   IF date.exc # ""
                   THEN [skip |-> FALSE, exc |-> date.exc, value |-> None]
                   ELSE [skip |-> FALSE, exc |-> "",
                         value |-> Record(url, RssLink(url, item.link), item.title,
                                          date.value, UrlParse(url).netloc)],
               date_from_rss_item(item))

\* the body of the loop of parse_rss for one item: skip, a record, or an
\* exception
RssResult(item, url) ==
    IF item.link = NoneText THEN [skip |-> TRUE, exc |-> "", value |-> None]
    ELSE Value(LAMBDA date :
                   IF date.exc # ""
                   THEN [skip |-> FALSE, exc |-> date.exc, value |-> None]
                   ELSE [skip |-> FALSE, exc |-> "",
                         value |-> Record(url,
                                          RssLink(url, item.link),
                                          IF item.title # NoneText THEN item.title ELSE <<>>,
                                          date.value,
                                          UrlParse(url).netloc)],
               date_from_rss_item(item))

\* the date of an Atom entry: published or updated, parsed when there is one
AtomDate(entry) ==
    LET pub_date == IF entry.published # NoneText THEN entry.published
                    ELSE entry.updated
    IN  IF pub_date # NoneText THEN StrptimeIsoOffset(pub_date) ELSE Return(None)

\* the body of the loop of parse_atom for one entry
AtomResult(entry, url) ==
    IF entry.link = None THEN [skip |-> TRUE, exc |-> "", value |-> None]
    ELSE Value(LAMBDA date :
                   IF date.exc # ""
                   THEN [skip |-> FALSE, exc |-> date.exc, value |-> None]
                   ELSE [skip |-> FALSE, exc |-> "",
                         value |-> Record(url,
                                          entry.link.href,
                                          IF entry.title # NoneText THEN entry.title ELSE <<>>,
                                          date.value,
                                          UrlParse(url).netloc)],
               AtomDate(entry))

\* the loop: the first exception ends it, else the records of the items
\* that were not skipped, in order
CollectOutcomes(outcomes) ==
    LET raising == {k \in 1..Len(outcomes) : outcomes[k].exc # ""}
        kept == SelectSeq(outcomes, LAMBDA o : ~o.skip)
    IN  IF raising # {}
        THEN Raise(outcomes[CHOOSE k \in raising : \A j \in raising : k <= j].exc)
        ELSE Return([k \in 1..Len(kept) |-> kept[k].value])

Collect(outcomes) == Value(LAMBDA o : CollectOutcomes(o), outcomes)

parse_rss(doc, url) ==
    IF doc.items = <<>> THEN Return(<<>>)
    ELSE Value(LAMBDA results :
                   IF results.exc # "" THEN results
                   ELSE Return(remove_generic_urls(PyList(results.value))),
               Collect([k \in 1..Len(doc.items) |-> RssResult(doc.items[k], url)]))

parse_atom(doc, url) ==
    IF doc.entries = <<>> THEN Return(<<>>)
    ELSE Collect([k \in 1..Len(doc.entries) |-> AtomResult(doc.entries[k], url)])

\* Feed.open_rss on what requests.get gives: an exception of requests (caught,
\* None is returned) or the parsed content
open_rss(response) ==
    IF response.exc # "" THEN None ELSE response.value

\* Feed.from_rss after open_rss has returned doc
from_rss(doc, url) ==
    IF doc = None THEN Return(<<>>)
    ELSE IF doc.feed THEN parse_atom(doc, url)
    ELSE parse_rss(doc, url)

\* ------------------------------------------------------------------------
\* Inputs of the feed batch: feed URLs and what the network answers
\* ------------------------------------------------------------------------
\* http://x.gov/rss.xml
XFeedUrl ==
    <<"h", "t", "t", "p", ":", "/", "/", "x", ".", "g", "o", "v", "/", "r", "s",
    "s", ".", "x", "m", "l">>
\* http://x.gov/a
LinkA ==
    <<"h", "t", "t", "p", ":", "/", "/", "x", ".", "g", "o", "v", "/", "a">>
\* b
LinkB ==
    <<"b">>
\* http://mikulski.senate.gov/p/1-2-2014.cfm
LinkMikulski ==
    <<"h", "t", "t", "p", ":", "/", "/", "m", "i", "k", "u", "l", "s", "k", "i",
    ".", "s", "e", "n", "a", "t", "e", ".", "g", "o", "v", "/", "p", "/", "1",
    "-", "2", "-", "2", "0", "1", "4", ".", "c", "f", "m">>
\* http://x.gov/e1
LinkE1 ==
    <<"h", "t", "t", "p", ":", "/", "/", "x", ".", "g", "o", "v", "/", "e",
    "1">>
\* http://x.gov/e2
LinkE2 ==
    <<"h", "t", "t", "p", ":", "/", "/", "x", ".", "g", "o", "v", "/", "e",
    "2">>
\* T1
TitleT1 ==
    <<"T", "1">>
\* T2
TitleT2 ==
    <<"T", "2">>
\* T3
TitleT3 ==
    <<"T", "3">>
\* 2024-02-03T04:05:06+0000
IsoDateText ==
    <<"2", "0", "2", "4", "-", "0", "2", "-", "0", "3", "T", "0", "4", ":", "0",
    "5", ":", "0", "6", "+", "0", "0", "0", "0">>
\* 2024-03-04T05:06:07-0500
IsoDateText2 ==
    <<"2", "0", "2", "4", "-", "0", "3", "-", "0", "4", "T", "0", "5", ":", "0",
    "6", ":", "0", "7", "-", "0", "5", "0", "0">>
\* garbage
GarbageText ==
    <<"g", "a", "r", "b", "a", "g", "e">>
\* 99999999999
OverflowText ==
    <<"9", "9", "9", "9", "9", "9", "9", "9", "9", "9", "9">>

FeedUrls == {XFeedUrl, BurrFeedUrl, JohannsFeedUrl}

\* an empty or malformed answer: the parser finds no element at all
BlankDoc == Document(FALSE, <<>>, <<>>)

\* two items: an absolute link with a pubDate and no title, a relative link
\* with an unreadable pubdate
RssDocTwo ==
    Document(FALSE,
             <<RssItem(LinkA, NoneText, RfcDateText, NoneText),
               RssItem(LinkB, TitleT2, NoneText, GarbageText)>>,
             <<>>)

\* an item without link, an item that links to the index page, and an item
\* dated by its link
RssDocMixed ==
    Document(FALSE,
             <<RssItem(NoneText, TitleT1, RfcDateText, NoneText),
               RssItem(<<"/", "n", "e", "w", "s", "/">>, TitleT2, NoneText, NoneText),
               RssItem(LinkMikulski, TitleT3, NoneText, NoneText)>>,
             <<>>)

\* a feed whose only item links to the index page
RssDocGeneric ==
    Document(FALSE,
             <<RssItem(Http \o <<":", "/", "/">> \o XGov \o <<"/", "n", "e", "w", "s">>,
                       TitleT1, RfcDateText, NoneText)>>,
             <<>>)

\* a good item followed by an item whose pubDate overflows
RssDocOverflow ==
    Document(FALSE,
             <<RssItem(LinkA, TitleT1, RfcDateText, NoneText),
               RssItem(LinkB, TitleT2, OverflowText, NoneText)>>,
             <<>>)

\* an Atom feed: an entry dated by published, an entry dated by updated
AtomDocTwo ==
    Document(TRUE, <<>>,
             <<AtomEntry([href |-> LinkE1], TitleT1, IsoDateText, NoneText),
               AtomEntry([href |-> LinkE2], TitleT2, NoneText, IsoDateText2)>>)

\* an Atom feed whose second entry has a date without offset
AtomDocBadDate ==
    Document(TRUE, <<>>,
             <<AtomEntry([href |-> LinkE1], TitleT1, IsoDateText, NoneText),
               AtomEntry([href |-> LinkE2], TitleT2, GarbageText, NoneText)>>)

FeedDocs ==
    {BlankDoc, RssDocTwo, RssDocMixed, RssDocGeneric, RssDocOverflow, AtomDocTwo,
     AtomDocBadDate}

\* what requests.get does when the server answers: it returns the content
\* (parsed by BeautifulSoup) or raises an exception of requests
FeedAnswers == {Return(d) : d \in FeedDocs} \cup {Raise("ConnectionError")}

\* the lists of a list put end to end (the loop of member_scrapers that
\* flattens scraper_results: every adapter returns a list)
RECURSIVE Flatten(_)
Flatten(lists) ==
    IF lists = <<>> THEN <<>> ELSE Head(lists) \o Flatten(Tail(lists))

\* ------------------------------------------------------------------------
\* Scraper: the pages and the adapters
\* ------------------------------------------------------------------------
\* https://
Https ==
    <<"h", "t", "t", "p", "s", ":", "/", "/">>

\* www.shaheen.senate.gov
ShaheenDomain ==
    <<"w", "w", "w", ".", "s", "h", "a", "h", "e", "e", "n", ".", "s", "e", "n",
    "a", "t", "e", ".", "g", "o", "v">>

\* https://www.shaheen.senate.gov/news/press?PageNum_rs=
ShaheenUrl ==
    <<"h", "t", "t", "p", "s", ":", "/", "/", "w", "w", "w", ".", "s", "h", "a",
    "h", "e", "e", "n", ".", "s", "e", "n", "a", "t", "e", ".", "g", "o", "v",
    "/", "n", "e", "w", "s", "/", "p", "r", "e", "s", "s", "?", "P", "a", "g",
    "e", "N", "u", "m", "_", "r", "s", "=">>

\* www.scott.senate.gov
ScottDomain ==
    <<"w", "w", "w", ".", "s", "c", "o", "t", "t", ".", "s", "e", "n", "a", "t",
    "e", ".", "g", "o", "v">>

\* https://www.scott.senate.gov/media-center/press-releases/jsf/jet-engine:press-list/pagenum/
ScottUrl ==
    <<"h", "t", "t", "p", "s", ":", "/", "/", "w", "w", "w", ".", "s", "c", "o",
    "t", "t", ".", "s", "e", "n", "a", "t", "e", ".", "g", "o", "v", "/", "m",
    "e", "d", "i", "a", "-", "c", "e", "n", "t", "e", "r", "/", "p", "r", "e",
    "s", "s", "-", "r", "e", "l", "e", "a", "s", "e", "s", "/", "j", "s", "f",
    "/", "j", "e", "t", "-", "e", "n", "g", "i", "n", "e", ":", "p", "r", "e",
    "s", "s", "-", "l", "i", "s", "t", "/", "p", "a", "g", "e", "n", "u", "m",
    "/">>

\* www.king.senate.gov
KingDomain ==
    <<"w", "w", "w", ".", "k", "i", "n", "g", ".", "s", "e", "n", "a", "t", "e",
    ".", "g", "o", "v">>

\* https://www.king.senate.gov/newsroom/press-releases/table?pagenum_rs=
KingUrl ==
    <<"h", "t", "t", "p", "s", ":", "/", "/", "w", "w", "w", ".", "k", "i", "n",
    "g", ".", "s", "e", "n", "a", "t", "e", ".", "g", "o", "v", "/", "n", "e",
    "w", "s", "r", "o", "o", "m", "/", "p", "r", "e", "s", "s", "-", "r", "e",
    "l", "e", "a", "s", "e", "s", "/", "t", "a", "b", "l", "e", "?", "p", "a",
    "g", "e", "n", "u", "m", "_", "r", "s", "=">>

\* https://www.king.senate.gov
KingBase ==
    <<"h", "t", "t", "p", "s", ":", "/", "/", "w", "w", "w", ".", "k", "i", "n",
    "g", ".", "s", "e", "n", "a", "t", "e", ".", "g", "o", "v">>

\* wassermanschultz.house.gov
WassermanSchultz ==
    <<"w", "a", "s", "s", "e", "r", "m", "a", "n", "s", "c", "h", "u", "l", "t",
    "z", ".", "h", "o", "u", "s", "e", ".", "g", "o", "v">>

\* hern.house.gov
Hern ==
    <<"h", "e", "r", "n", ".", "h", "o", "u", "s", "e", ".", "g", "o", "v">>

\* fletcher.house.gov
Fletcher ==
    <<"f", "l", "e", "t", "c", "h", "e", "r", ".", "h", "o", "u", "s", "e", ".",
    "g", "o", "v">>

\* /news/documentquery.aspx?DocumentTypeID=
DocumentQueryPath ==
    <<"/", "n", "e", "w", "s", "/", "d", "o", "c", "u", "m", "e", "n", "t", "q",
    "u", "e", "r", "y", ".", "a", "s", "p", "x", "?", "D", "o", "c", "u", "m",
    "e", "n", "t", "T", "y", "p", "e", "I", "D", "=">>

\* &Page=
AndPage ==
    <<"&", "P", "a", "g", "e", "=">>

\* /news/
NewsSlash ==
    <<"/", "n", "e", "w", "s", "/">>

\* https://issa.house.gov/media/press-releases
IssaUrl ==
    <<"h", "t", "t", "p", "s", ":", "/", "/", "i", "s", "s", "a", ".", "h", "o",
    "u", "s", "e", ".", "g", "o", "v", "/", "m", "e", "d", "i", "a", "/", "p",
    "r", "e", "s", "s", "-", "r", "e", "l", "e", "a", "s", "e", "s">>

\* https://tenney.house.gov/media/press-releases
TenneyUrl ==
    <<"h", "t", "t", "p", "s", ":", "/", "/", "t", "e", "n", "n", "e", "y", ".",
    "h", "o", "u", "s", "e", ".", "g", "o", "v", "/", "m", "e", "d", "i", "a",
    "/", "p", "r", "e", "s", "s", "-", "r", "e", "l", "e", "a", "s", "e", "s">>

\* ?page=
QueryPage ==
    <<"?", "p", "a", "g", "e", "=">>

\* None
NoneAsText ==
    <<"N", "o", "n", "e">>

\* The page BeautifulSoup parsed, as the adapters see it: the blocks their
\* selector finds (div.media-body, div.ArticleBlock, article, table tr ...)
\* and in each block the elements they look for, None when there is none:
\* the first link (its href attribute, NoneText when it has none, and its
\* text), the title element, the time element (its datetime attribute and
\* its text) and the element or cell of the date.
Page(rows) == [rows |-> rows]

Anchor(href, text) == [href |-> href, text |-> text]

Elem(text) == [text |-> text]

TimeElem(datetime, text) == [datetime |-> datetime, text |-> text]

Row(a, title, time, date) == [a |-> a, title |-> title, time |-> time, date |-> date]

\* str(value) inside an f-string: None is written "None"
PyStr(value) == IF value = NoneText THEN NoneAsText ELSE value

\* a + b of two str: adding None to a str is a TypeError
PyConcat(a, b) == IF b = NoneText THEN Raise("TypeError") ELSE Return(a \o b)

\* requests.get(url, headers=headers, timeout=30) of open_html
OpenHtmlRequest(url) == [url |-> url, timeout |-> {30}]

\* Scraper.open_html: the parsed page, or None when requests.get or
\* raise_for_status raised
open_html(response) == IF response.exc = "" THEN response.value ELSE None

\* a row the loop of an adapter passes over
SkipRow == [skip |-> TRUE, exc |-> "", value |-> None]

\* a row the loop of an adapter makes a record of
KeepRow(record) == [skip |-> FALSE, exc |-> "", value |-> record]

\* a row on which the loop of an adapter raises
RaiseRow(exc) == [skip |-> FALSE, exc |-> exc, value |-> None]

\* try strptime with one format, except ValueError the other, except
\* ValueError pass: the date stays None
FirstDate(first, second) ==
    IF first.exc = "" THEN first.value
    ELSE IF second.exc = "" THEN second.value
    ELSE None

\* the body of the loop of media_body for one div.media-body
MediaBodyResult(row, url, domain) ==
    IF row.a = None \/ row.date = None THEN SkipRow
    ELSE KeepRow(Record(url,
                        Https \o domain \o PyStr(row.a.href),
                        Strip(row.a.text),
                        FirstDate(StrptimeSlashes(Strip(row.date.text)),
                                  StrptimeMonthName(Strip(row.date.text))),
                        domain))

\* the body of the loop of media_body for one url whose page was opened
MediaBodyPage(doc, url) ==
    Value(LAMBDA domain :
              Collect([k \in 1..Len(doc.rows) |->
                          MediaBodyResult(doc.rows[k], url, domain)]).value,
          UrlParse(url).netloc)

\* the url media_body opens for one of its urls
MediaBodySourceUrl(url, page) == url \o QueryPage \o IntText(page)

\* the default urls of media_body
MediaBodyUrls == <<IssaUrl, TenneyUrl>>

\* Scraper.media_body, given what the network answers to each of its
\* requests (the exception of a timeout included): a url whose page could
\* not be opened is passed over
RECURSIVE MediaBodyLoop(_, _, _)
MediaBodyLoop(urls, answers, k) ==
    IF k > Len(urls) THEN <<>>
    ELSE (IF open_html(answers[k]) = None THEN <<>>
          ELSE MediaBodyPage(open_html(answers[k]), urls[k]))
         \o MediaBodyLoop(urls, answers, k + 1)

media_body(urls, page, answers) == Return(MediaBodyLoop(urls, answers, 1))

\* an adapter that opens one page: [] when the page could not be opened,
\* else the records of its rows, or the exception a row raised
OnePage(doc, outcomes) ==
    IF doc = None THEN Return(<<>>) ELSE Collect(outcomes)

\* the body of the loop of shaheen for one div.ArticleBlock
ShaheenResult(row, url) ==
    IF row.a = None \/ row.title = None \/ row.time = None THEN SkipRow
    ELSE KeepRow(Record(url,
                        row.a.href,
                        Strip(row.title.text),
                        FirstDate(StrptimeSlashes(Replace(row.time.text, ".", "/")),
                                  StrptimeMonthName(Replace(row.time.text, ".", "/"))),
                        ShaheenDomain))

\* Scraper.shaheen
shaheen(page, answer) ==
    LET url == ShaheenUrl \o IntText(page)
        doc == open_html(answer)
    IN  OnePage(doc, [k \in 1..Len(doc.rows) |-> ShaheenResult(doc.rows[k], url)])

\* the body of the loop of timscott for one grid item
TimScottResult(row, url) ==
    IF row.a = None THEN SkipRow
    ELSE KeepRow(Record(url,
                        row.a.href,
                        Strip(row.a.text),
                        IF row.date = None THEN None
                        ELSE FirstDate(StrptimeMonthName(Strip(row.date.text)),
                                       Raise("ValueError")),
                        ScottDomain))

\* Scraper.timscott
timscott(page, answer) ==
    LET url == ScottUrl \o IntText(page) \o <<"/">>
        doc == open_html(answer)
    IN  OnePage(doc, [k \in 1..Len(doc.rows) |-> TimScottResult(doc.rows[k], url)])

\* the body of the loop of angusking for one table row
AngusKingResult(row, url) ==
    IF row.a = None THEN SkipRow
    ELSE Value(LAMBDA link :
                   IF link.exc # "" THEN RaiseRow(link.exc)
                   ELSE KeepRow(Record(url,
                                       link.value,
                                       Strip(row.a.text),
                                       IF row.date = None THEN None
                                       ELSE FirstDate(StrptimeSlashes(Strip(row.date.text)),
                                                      Raise("ValueError")),
                                       KingDomain)),
               PyConcat(KingBase, row.a.href))

\* Scraper.angusking: the first table row is the header and is left out
angusking(page, answer) ==
    LET url == KingUrl \o IntText(page)
        doc == open_html(answer)
    IN  OnePage(doc, [k \in 1..(Len(doc.rows) - 1) |->
                         AngusKingResult(doc.rows[k + 1], url)])

\* the default domains of document_query_new with their DocumentTypeID
DocumentQueryDomains ==
    <<[domain |-> WassermanSchultz, doc_type_id |-> 27],
      [domain |-> Hern, doc_type_id |-> 27],
      [domain |-> Fletcher, doc_type_id |-> 27]>>

\* time_elem.get('datetime') or time_elem.text
DateAttr(time) ==
    IF time.datetime # NoneText /\ time.datetime # <<>> THEN time.datetime
    ELSE time.text

\* the body of the loop of document_query_new for one article
DocumentQueryResult(row, source_url, domain) ==
    IF row.a = None \/ row.time = None THEN SkipRow
    ELSE KeepRow(Record(source_url,
                        Https \o domain \o NewsSlash \o PyStr(row.a.href),
                        Strip(row.a.text),
                        FirstDate(StrptimeDashes(DateAttr(row.time)),
                                  StrptimeMonthName(row.time.text)),
                        domain))

\* the url document_query_new opens for one domain
DocumentQuerySourceUrl(d, page) ==
    Https \o d.domain \o DocumentQueryPath \o IntText(d.doc_type_id)
        \o AndPage \o IntText(page)

\* Scraper.document_query_new, given what the network answers to each of
\* its requests: a domain whose page could not be opened is passed over
RECURSIVE DocumentQueryLoop(_, _, _, _)
DocumentQueryLoop(domains, page, answers, k) ==
    IF k > Len(domains) THEN <<>>
    ELSE (IF open_html(answers[k]) = None THEN <<>>
          ELSE Collect([n \in 1..Len(open_html(answers[k]).rows) |->
                           DocumentQueryResult(open_html(answers[k]).rows[n],
                                               DocumentQuerySourceUrl(domains[k], page),
                                               domains[k].domain)]).value)
         \o DocumentQueryLoop(domains, page, answers, k + 1)

document_query_new(domains, page, answers) ==
    Return(DocumentQueryLoop(domains, page, answers, 1))

\* bera.house.gov
BeraDomain ==
    <<"b", "e", "r", "a", ".", "h", "o", "u", "s", "e", ".", "g", "o", "v">>

\* https://bera.house.gov/news/documentquery.aspx?DocumentTypeID=2402&Page=
BeraUrl ==
    <<"h", "t", "t", "p", "s", ":", "/", "/", "b", "e", "r", "a", ".", "h", "o",
    "u", "s", "e", ".", "g", "o", "v", "/", "n", "e", "w", "s", "/", "d", "o",
    "c", "u", "m", "e", "n", "t", "q", "u", "e", "r", "y", ".", "a", "s", "p",
    "x", "?", "D", "o", "c", "u", "m", "e", "n", "t", "T", "y", "p", "e", "I",
    "D", "=", "2", "4", "0", "2", "&", "P", "a", "g", "e", "=">>

\* https://bera.house.gov/news/
BeraBase ==
    <<"h", "t", "t", "p", "s", ":", "/", "/", "b", "e", "r", "a", ".", "h", "o",
    "u", "s", "e", ".", "g", "o", "v", "/", "n", "e", "w", "s", "/">>

\* meeks.house.gov
MeeksDomain ==
    <<"m", "e", "e", "k", "s", ".", "h", "o", "u", "s", "e", ".", "g", "o",
    "v">>

\* https://meeks.house.gov/media/press-releases?page=
MeeksUrl ==
    <<"h", "t", "t", "p", "s", ":", "/", "/", "m", "e", "e", "k", "s", ".", "h",
    "o", "u", "s", "e", ".", "g", "o", "v", "/", "m", "e", "d", "i", "a", "/",
    "p", "r", "e", "s", "s", "-", "r", "e", "l", "e", "a", "s", "e", "s", "?",
    "p", "a", "g", "e", "=">>

\* https://meeks.house.gov
MeeksBase ==
    <<"h", "t", "t", "p", "s", ":", "/", "/", "m", "e", "e", "k", "s", ".", "h",
    "o", "u", "s", "e", ".", "g", "o", "v">>

\* the body of the loop of bera for one article: strptime of a datetime
\* attribute that is missing is a TypeError, and the date stays None
BeraResult(row, url) ==
    IF row.a = None \/ row.time = None THEN SkipRow
    ELSE KeepRow(Record(url,
                        BeraBase \o PyStr(row.a.href),
                        Strip(row.a.text),
                        IF row.time.datetime = NoneText THEN None
                        ELSE FirstDate(StrptimeDashes(row.time.datetime),
                                       Raise("ValueError")),
                        BeraDomain))

\* Scraper.bera
bera(page, answer) ==
    LET url == BeraUrl \o IntText(page)
        doc == open_html(answer)
    IN  OnePage(doc, [k \in 1..Len(doc.rows) |-> BeraResult(doc.rows[k], url)])

\* the body of the loop of meeks for one .views-row
MeeksResult(row, url) ==
    IF row.a = None \/ row.date = None THEN SkipRow
    ELSE KeepRow(Record(url,
                        MeeksBase \o PyStr(row.a.href),
                        Strip(row.a.text),
                        FirstDate(StrptimeMonthName(Strip(row.date.text)),
                                  Raise("ValueError")),
                        MeeksDomain))

\* Scraper.meeks: the first ten rows
meeks(page, answer) ==
    LET url == MeeksUrl \o IntText(page)
        doc == open_html(answer)
    IN  OnePage(doc, [k \in 1..Min(Len(doc.rows), 10) |-> MeeksResult(doc.rows[k], url)])

\* www.crapo.senate.gov
CrapoDomain ==
    <<"w", "w", "w", ".", "c", "r", "a", "p", "o", ".", "s", "e", "n", "a", "t",
    "e", ".", "g", "o", "v">>

\* https://www.crapo.senate.gov/media/newsreleases/?PageNum_rs=
CrapoUrl ==
    <<"h", "t", "t", "p", "s", ":", "/", "/", "w", "w", "w", ".", "c", "r", "a",
    "p", "o", ".", "s", "e", "n", "a", "t", "e", ".", "g", "o", "v", "/", "m",
    "e", "d", "i", "a", "/", "n", "e", "w", "s", "r", "e", "l", "e", "a", "s",
    "e", "s", "/", "?", "P", "a", "g", "e", "N", "u", "m", "_", "r", "s", "=">>

\* only the first format of crapo
CrapoDateFirstFormatOnly(date_text) ==
    FirstDate(StrptimeDots(date_text), Raise("ValueError"))

\* the formats of crapo in their order: "%m.%d.%y", then "%B %d, %Y"
CrapoDate(date_text) ==
    FirstDate(StrptimeDots(date_text), StrptimeMonthName(date_text))

\* a loop body that also passes over a block without title element
CrapoResultTitleRequired(block, url) ==
    IF block.a = None \/ block.title = None THEN SkipRow
    ELSE KeepRow(Record(url,
                        block.a.href,
                        Strip(block.a.text),
                        IF block.date = None \/ block.date.text = <<>> THEN None
                        ELSE CrapoDate(block.date.text),
                        CrapoDomain))

\* the body of the loop of crapo for one div.ArticleBlock: the date is the
\* text of its first p, when there is one and the text is not empty
CrapoResult(block, url) ==
    IF block.a = None THEN SkipRow
    ELSE KeepRow(Record(url,
                        block.a.href,
                        Strip(block.a.text),
                        IF block.date = None \/ block.date.text = <<>> THEN None
                        ELSE CrapoDate(block.date.text),
                        CrapoDomain))

\* Scraper.crapo
crapo(page, answer) ==
    LET url == CrapoUrl \o IntText(page) \o <<"&">>
        doc == open_html(answer)
    IN  OnePage(doc, [k \in 1..Len(doc.rows) |-> CrapoResult(doc.rows[k], url)])

\* ul#membernews: the links in it
MemberNews(links) == [a |-> links]

\* the page of house_gop: its ul#membernews, None when the page has no such
\* list
HousePage(membernews) == [membernews |-> membernews]

\* dict(param.split('=') for param in uri.query.split('&')).get('Date'): a
\* parameter that is not one name and one value is a ValueError; the last
\* Date wins; None when there is no Date
DateParam(query) ==
    LET params == Split(query, "&")
        pairs == [k \in 1..Len(params) |-> Split(params[k], "=")]
        dates == {k \in 1..Len(pairs) : pairs[k][1] = <<"D", "a", "t", "e">>}
    IN  IF \E k \in 1..Len(pairs) : Len(pairs[k]) # 2 THEN Raise("ValueError")
        ELSE IF dates = {} THEN Return(NoneText)
        ELSE Return(pairs[CHOOSE k \in dates : \A j \in dates : j <= k][2])

\* the date of house_gop: the Date parameter of the url read as "%m/%d/%Y",
\* None when there is none or when anything raised
HouseGopDate(url) ==
    Value(LAMBDA date_param :
              IF date_param.exc # "" THEN None
              ELSE IF date_param.value = NoneText \/ date_param.value = <<>> THEN None
              ELSE FirstDate(StrptimeSlashesYear(date_param.value), Raise("ValueError")),
          DateParam(UrlParse(url).query))

\* the body of the loop of house_gop for one link: absolute_link raises
\* AttributeError on a link without href
HouseGopResult(link, url, date) ==
    Value(LAMBDA abs_link :
              IF abs_link.exc # "" THEN RaiseRow(abs_link.exc)
              ELSE KeepRow(Record(url,
                                  abs_link.value,
                                  Strip(link.text),
                                  date,
                                  UrlParse(link.href).netloc)),
          absolute_link_call(url, link.href))

\* Scraper.house_gop
house_gop(url, answer) ==
    LET doc == open_html(answer)
    IN  IF doc = None THEN Return(<<>>)
        ELSE IF doc.membernews = None THEN Return(<<>>)
        ELSE Value(LAMBDA results :
                       IF results.exc # "" THEN results
                       ELSE Return(remove_generic_urls(PyList(results.value))),
                   Value(LAMBDA date :
                             Collect([k \in 1..Len(doc.membernews.a) |->
                                         HouseGopResult(doc.membernews.a[k], url, date)]),
                         HouseGopDate(url)))

\* ------------------------------------------------------------------------
\* Scraper.react: the JSON of the page and the adapter
\* ------------------------------------------------------------------------
\* nikemawilliams.house.gov
NikemaWilliams ==
    <<"n", "i", "k", "e", "m", "a", "w", "i", "l", "l", "i", "a", "m", "s", ".",
    "h", "o", "u", "s", "e", ".", "g", "o", "v">>

\* kiley.house.gov
Kiley ==
    <<"k", "i", "l", "e", "y", ".", "h", "o", "u", "s", "e", ".", "g", "o",
    "v">>

\* /press
SlashPress ==
    <<"/", "p", "r", "e", "s", "s">>

\* +00:00
PlusZero ==
    <<"+", "0", "0", ":", "0", "0">>

\* JSON values as json.loads gives them: dict, list, str, int, None
JObj(fields) == [obj |-> fields]

JArr(items) == [arr |-> items]

JStr(text) == [str |-> text]

JNum(n) == [num |-> n]

JNull == [null |-> TRUE]

\* the type of a JSON value
IsA(x, type) == type \in DOMAIN x

\* a step of a subscript path: a key or an index
Key(k) == [key |-> k]

Index(n) == [index |-> n]

\* x[key] and x[index] in Python: KeyError, IndexError, or TypeError when x
\* cannot be subscripted that way
Subscript(x, step) ==
    IF "key" \in DOMAIN step
    THEN (IF IsA(x, "obj")
          THEN (IF step.key \in DOMAIN x.obj THEN Return(x.obj[step.key])
                ELSE Raise("KeyError"))
          ELSE Raise("TypeError"))
    ELSE (IF IsA(x, "arr")
          THEN (IF step.index < Len(x.arr) THEN Return(x.arr[step.index + 1])
                ELSE Raise("IndexError"))
          ELSE IF IsA(x, "str")
          THEN (IF step.index < Len(x.str) THEN Return(JStr(<<x.str[step.index + 1]>>))
                ELSE Raise("IndexError"))
          ELSE IF IsA(x, "obj") THEN Raise("KeyError")
          ELSE Raise("TypeError"))

\* x[p1][p2]...[pn] from step k on: the first exception ends it
RECURSIVE Walk(_, _, _)
Walk(x, path, k) ==
    IF k > Len(path) THEN Return(x)
    ELSE LET next == Subscript(x, path[k])
         IN  IF next.exc # "" THEN next ELSE Walk(next.value, path, k + 1)

\* ['props']['pageProps']['dehydratedState']['queries'][11]['state']['data']
\* ['posts']['edges']
ReactPath ==
    <<Key("props"), Key("pageProps"), Key("dehydratedState"), Key("queries"),
      Index(11), Key("state"), Key("data"), Key("posts"), Key("edges")>>

\* x.get(key, default): only a dict has get
DictGet(x, key, default) ==
    IF ~IsA(x, "obj") THEN Raise("AttributeError")
    ELSE IF key \in DOMAIN x.obj THEN Return(x.obj[key])
    ELSE Return(default)

\* a JSON value as the field of a record: the text of a str, None for null
FieldValue(x) == IF IsA(x, "str") THEN x.str ELSE NoneText

\* if x: None, '', 0, [] and {} are false
JTruthy(x) ==
    CASE IsA(x, "null") -> FALSE
      [] IsA(x, "str") -> x.str # <<>>
      [] IsA(x, "arr") -> x.arr # <<>>
      [] IsA(x, "obj") -> DOMAIN x.obj # {}
      [] IsA(x, "num") -> x.num # 0

\* date_str.replace('Z', '+00:00')
ReplaceZ(text) ==
    IF text = <<>> THEN <<>>
    ELSE Flatten([k \in 1..Len(text) |->
                      IF text[k] = "Z" THEN PlusZero ELSE <<text[k]>>])

\* datetime.fromisoformat(text).date() on YYYY-MM-DD, alone or followed by
\* THH:MM:SS and by an offset +HH:MM; anything else is a ValueError
FromIsoFormat(text) ==
    LET digitsAt(ks) == \A k \in ks : text[k] \in Digits
        day == StrptimeDate(ToInt(SubSeq(text, 1, 4)), ToInt(SubSeq(text, 6, 7)),
                            ToInt(SubSeq(text, 9, 10)))
        dateOk == /\ Len(text) >= 10
                  /\ digitsAt({1, 2, 3, 4, 6, 7, 9, 10})
                  /\ text[5] = "-" /\ text[8] = "-"
        timeOk == /\ Len(text) >= 19
                  /\ text[11] = "T"
                  /\ digitsAt({12, 13, 15, 16, 18, 19})
                  /\ text[14] = ":" /\ text[17] = ":"
                  /\ ToInt(SubSeq(text, 12, 13)) \in 0..23
                  /\ ToInt(SubSeq(text, 15, 16)) \in 0..59
                  /\ ToInt(SubSeq(text, 18, 19)) \in 0..59
        offsetOk == /\ Len(text) = 25
                    /\ text[20] \in {"+", "-"}
                    /\ digitsAt({21, 22, 24, 25})
                    /\ text[23] = ":"
                    /\ ToInt(SubSeq(text, 21, 22)) \in 0..23
                    /\ ToInt(SubSeq(text, 24, 25)) \in 0..59
    IN  IF dateOk /\ (Len(text) = 10 \/ (timeOk /\ (Len(text) = 19 \/ offsetOk)))
        THEN day
        ELSE Raise("ValueError")

\* the date of a post: None when the node has no date or the text is no ISO
\* date; a date that is not a str has no replace
ReactDate(date_str) ==
    IF ~JTruthy(date_str) THEN Return(None)
    ELSE IF ~IsA(date_str, "str") THEN Raise("AttributeError")
    ELSE Return(FirstDate(FromIsoFormat(ReplaceZ(date_str.str)), Raise("ValueError")))

\* the body of the loop of react for one post
ReactResult(post, url, domain) ==
    Value(LAMBDA node :
        IF node.exc # "" THEN RaiseRow(node.exc)
        ELSE Value(LAMBDA fields :
                 IF fields.date_str.exc # "" THEN RaiseRow(fields.date_str.exc)
                 ELSE Value(LAMBDA date :
                          IF date.exc # "" THEN RaiseRow(date.exc)
                          ELSE KeepRow(Record(url,
                                              FieldValue(fields.link.value),
                                              FieldValue(fields.title.value),
                                              date.value,
                                              domain)),
                          ReactDate(fields.date_str.value)),
                 [date_str |-> DictGet(node.value, "date", JNull),
                  link |-> DictGet(node.value, "link", JStr(<<>>)),
                  title |-> DictGet(node.value, "title", JStr(<<>>))]),
        DictGet(post, "node", JObj(<<>>)))

\* for post in posts: a list gives its items; a dict gives its keys and a
\* str its characters, which are str; None and int cannot be iterated
Iterate(posts) ==
    CASE IsA(posts, "arr") -> Return(posts.arr)
      [] IsA(posts, "str") -> Return([k \in 1..Len(posts.str) |-> JStr(<<posts.str[k]>>)])
      [] IsA(posts, "obj") ->
            Return([k \in 1..Cardinality(DOMAIN posts.obj) |-> JStr(<<"k">>)])
      [] OTHER -> Raise("TypeError")

\* the records made before the first post that raised, and its exception
PostsLoop(outcomes) ==
    LET raising == {k \in 1..Len(outcomes) : outcomes[k].exc # ""}
        stop == IF raising = {} THEN Len(outcomes) + 1
                ELSE CHOOSE k \in raising : \A j \in raising : k <= j
    IN  [records |-> [k \in 1..(stop - 1) |-> outcomes[k].value],
         exc |-> IF raising = {} THEN "" ELSE outcomes[stop].exc]

\* json.loads(text): the text of the script is JSON or it is not
JsonText(value) == [malformed |-> FALSE, value |-> value]

NotJson == [malformed |-> TRUE]

json_loads(text) ==
    IF text.malformed THEN Raise("JSONDecodeError") ELSE Return(text.value)

\* the page of react: the text of the element with id __NEXT_DATA__, None
\* when the page has none
ReactPage(next_data) == [next_data |-> next_data]

\* the try block of react for one domain: the records appended to results
\* and the exception that ended the block, if any
ReactTry(text, url, domain) ==
    Value(LAMBDA json_data :
        IF json_data.exc # "" THEN [records |-> <<>>, exc |-> json_data.exc]
        ELSE Value(LAMBDA posts :
                 IF posts.exc # "" THEN [records |-> <<>>, exc |-> posts.exc]
                 ELSE Value(LAMBDA items :
                          IF items.exc # "" THEN [records |-> <<>>, exc |-> items.exc]
                          ELSE PostsLoop([k \in 1..Len(items.value) |->
                                             ReactResult(items.value[k], url, domain)]),
                          Iterate(posts.value)),
                 Walk(json_data.value, ReactPath, 1)),
        json_loads(text))

\* except (json.JSONDecodeError, KeyError, IndexError)
ReactCatches(exc) == exc \in {"JSONDecodeError", "KeyError", "IndexError"}

\* the default domains of react
ReactDomains == <<NikemaWilliams, Kiley>>

\* Scraper.react from domain k on, with the results so far: a domain whose
\* page could not be opened or has no script is passed over; an exception
\* of the try block that is not caught leaves react
RECURSIVE ReactLoop(_, _, _, _)
ReactLoop(domains, answers, k, results) ==
    IF k > Len(domains) THEN Return(results)
    ELSE LET doc == open_html(answers[k])
         IN  IF doc = None THEN ReactLoop(domains, answers, k + 1, results)
             ELSE IF doc.next_data = None
             THEN ReactLoop(domains, answers, k + 1, results)
             ELSE Value(LAMBDA try :
                            IF try.exc # "" /\ ~ReactCatches(try.exc) THEN Raise(try.exc)
                            ELSE ReactLoop(domains, answers, k + 1,
                                           results \o try.records),
                        ReactTry(doc.next_data, Https \o domains[k] \o SlashPress,
                                 domains[k]))

react(domains, answers) == ReactLoop(domains, answers, 1, <<>>)

\* ------------------------------------------------------------------------
\* Scraper.senate_drupal
\* ------------------------------------------------------------------------
\* https://www.republicanleader.senate.gov/newsroom/press-releases
RepublicanLeaderUrl ==
    <<"h", "t", "t", "p", "s", ":", "/", "/", "w", "w", "w", ".", "r", "e", "p",
    "u", "b", "l", "i", "c", "a", "n", "l", "e", "a", "d", "e", "r", ".", "s",
    "e", "n", "a", "t", "e", ".", "g", "o", "v", "/", "n", "e", "w", "s", "r",
    "o", "o", "m", "/", "p", "r", "e", "s", "s", "-", "r", "e", "l", "e", "a",
    "s", "e", "s">>

\* https://www.hoeven.senate.gov/news/news-releases
HoevenUrl ==
    <<"h", "t", "t", "p", "s", ":", "/", "/", "w", "w", "w", ".", "h", "o", "e",
    "v", "e", "n", ".", "s", "e", "n", "a", "t", "e", ".", "g", "o", "v", "/",
    "n", "e", "w", "s", "/", "n", "e", "w", "s", "-", "r", "e", "l", "e", "a",
    "s", "e", "s">>

\* https://www.warren.senate.gov/newsroom/press-releases
WarrenUrl ==
    <<"h", "t", "t", "p", "s", ":", "/", "/", "w", "w", "w", ".", "w", "a", "r",
    "r", "e", "n", ".", "s", "e", "n", "a", "t", "e", ".", "g", "o", "v", "/",
    "n", "e", "w", "s", "r", "o", "o", "m", "/", "p", "r", "e", "s", "s", "-",
    "r", "e", "l", "e", "a", "s", "e", "s">>

\* mcconnell.senate.gov
McConnellDomain ==
    <<"m", "c", "c", "o", "n", "n", "e", "l", "l", ".", "s", "e", "n", "a", "t",
    "e", ".", "g", "o", "v">>

\* www.republicanleader.senate.gov
RepublicanLeaderDomain ==
    <<"w", "w", "w", ".", "r", "e", "p", "u", "b", "l", "i", "c", "a", "n", "l",
    "e", "a", "d", "e", "r", ".", "s", "e", "n", "a", "t", "e", ".", "g", "o",
    "v">>

\* www.hoeven.senate.gov
HoevenDomain ==
    <<"w", "w", "w", ".", "h", "o", "e", "v", "e", "n", ".", "s", "e", "n", "a",
    "t", "e", ".", "g", "o", "v">>

\* www.tomudall.senate.gov
TomUdallDomain ==
    <<"w", "w", "w", ".", "t", "o", "m", "u", "d", "a", "l", "l", ".", "s", "e",
    "n", "a", "t", "e", ".", "g", "o", "v">>

\* www.vanhollen.senate.gov
VanHollenDomain ==
    <<"w", "w", "w", ".", "v", "a", "n", "h", "o", "l", "l", "e", "n", ".", "s",
    "e", "n", "a", "t", "e", ".", "g", "o", "v">>

\* www.warren.senate.gov
WarrenDomain ==
    <<"w", "w", "w", ".", "w", "a", "r", "r", "e", "n", ".", "s", "e", "n", "a",
    "t", "e", ".", "g", "o", "v">>

\* ?PageNum_rs=
PageNumQuery ==
    <<"?", "P", "a", "g", "e", "N", "u", "m", "_", "r", "s", "=">>

\* ://
SchemeSep ==
    <<":", "/", "/">>

\* p/a
PressRel ==
    <<"p", "/", "a">>

\* an h2 of #newscontent: its first link (None when it has none), its text,
\* and the element two siblings before it (None when there is none)
H2(a, text, prev) == [a |-> a, text |-> text, prev |-> prev]

\* the page of senate_drupal: the h2 elements of #newscontent in document
\* order
NewsContent(h2_elements) == [h2_elements |-> h2_elements]

\* release_url.replace(old, new): every occurrence of old, left to right
RECURSIVE ReplaceText(_, _, _)
ReplaceText(text, old, new) ==
    IF Len(text) < Len(old) THEN text
    ELSE IF SubSeq(text, 1, Len(old)) = old
    THEN new \o ReplaceText(SubSeq(text, Len(old) + 1, Len(text)), old, new)
    ELSE <<text[1]>> \o ReplaceText(Tail(text), old, new)

\* the default urls of senate_drupal that the model uses
SenateDrupalUrls == <<HoevenUrl, RepublicanLeaderUrl>>

\* the domains whose dates senate_drupal reads as "%B %d, %Y"
MonthNameDomains == {TomUdallDomain, VanHollenDomain, WarrenDomain}

\* the url senate_drupal opens for one of its urls
SenateDrupalSourceUrl(url, page) == url \o PageNumQuery \o IntText(page)

\* prev.text if prev else None
RawDate(row) == IF row.prev = None THEN NoneText ELSE row.prev.text

\* the date of a row: None when there is no date text or the one format of
\* the branch does not read it
DrupalDate(raw_date, parsed) ==
    IF raw_date = NoneText \/ raw_date = <<>> THEN None
    ELSE FirstDate(parsed, Raise("ValueError"))

\* the body of the loop of senate_drupal for one h2 that has a link, with
\* the value domain has when the row is reached: the record of the row and
\* the value of domain after it, which the republicanleader branch sets to
\* 'mcconnell.senate.gov'
SenateDrupalResult(row, url, source_url, domain) ==
    LET release_url ==
            UrlParse(url).scheme \o SchemeSep \o domain \o PyStr(row.a.href)
        title == Strip(row.text)
        raw_date == RawDate(row)
    IN  IF domain \in MonthNameDomains
        THEN [domain |-> domain,
              record |-> Record(source_url, release_url, title,
                                DrupalDate(raw_date,
                                           IF raw_date = NoneText
                                           THEN Raise("ValueError")
                                           ELSE StrptimeMonthName(raw_date)),
                                domain)]
        ELSE IF url = RepublicanLeaderUrl
        THEN [domain |-> McConnellDomain,
              record |-> Record(source_url,
                                ReplaceText(release_url, McConnellDomain,
                                            RepublicanLeaderDomain),
                                title,
                                DrupalDate(raw_date,
                                           IF raw_date = NoneText
                                           THEN Raise("ValueError")
                                           ELSE StrptimeSlashes(
                                                    Replace(raw_date, ".", "/"))),
                                McConnellDomain)]
        ELSE [domain |-> domain,
              record |-> Record(source_url, release_url, title,
                                DrupalDate(raw_date,
                                           IF raw_date = NoneText
                                           THEN Raise("ValueError")
                                           ELSE StrptimeDots(raw_date)),
                                domain)]

\* the inner loop of senate_drupal from row n on: an h2 without link is
\* passed over, and domain keeps what an earlier row of the page set
RECURSIVE SenateDrupalRows(_, _, _, _, _)
SenateDrupalRows(rows, n, url, source_url, domain) ==
    IF n > Len(rows) THEN <<>>
    ELSE IF rows[n].a = None
    THEN SenateDrupalRows(rows, n + 1, url, source_url, domain)
    ELSE Value(LAMBDA result :
                   <<result.record>>
                   \o SenateDrupalRows(rows, n + 1, url, source_url, result.domain),
               SenateDrupalResult(rows[n], url, source_url, domain))

\* a loop that ends at the first url whose page could not be opened
NextUrlAfterFailureBreak(urls, k) == Len(urls) + 1

\* continue: after a url whose page could not be opened the loop goes on
\* with the next url
NextUrlAfterFailure(urls, k) == k + 1

\* the outer loop of senate_drupal from url k on, with the results so far:
\* domain starts as the host of the url
RECURSIVE SenateDrupalLoop(_, _, _, _, _)
SenateDrupalLoop(urls, page, answers, k, results) ==
    IF k > Len(urls) THEN results
    ELSE LET doc == open_html(answers[k])
         IN  IF doc = None
             THEN SenateDrupalLoop(urls, page, answers,
                                   NextUrlAfterFailure(urls, k), results)
             ELSE SenateDrupalLoop(urls, page, answers, k + 1,
                                   results
                                   \o SenateDrupalRows(doc.h2_elements, 1, urls[k],
                                                       SenateDrupalSourceUrl(urls[k], page),
                                                       UrlParse(urls[k]).netloc))

\* Scraper.senate_drupal, given what the network answers to each of its
\* requests
senate_drupal(urls, page, answers) ==
    Return(SenateDrupalLoop(urls, page, answers, 1, <<>>))

\* ------------------------------------------------------------------------
\* Scraper: the pages the network serves in the model
\* ------------------------------------------------------------------------
\* /p/a
PressA ==
    <<"/", "p", "/", "a">>

\* /p/b
PressB ==
    <<"/", "p", "/", "b">>

\*  R1 
HeadA ==
    <<" ", "R", "1", " ">>

\* R2
HeadB ==
    <<"R", "2">>

\*  1/5/24 
SlashDate ==
    <<" ", "1", "/", "5", "/", "2", "4", " ">>

\* 01.05.24
DotDate ==
    <<"0", "1", ".", "0", "5", ".", "2", "4">>

\* January 5, 2024
NameDate ==
    <<"J", "a", "n", "u", "a", "r", "y", " ", "5", ",", " ", "2", "0", "2",
    "4">>

\* 2024-01-05
DashDate ==
    <<"2", "0", "2", "4", "-", "0", "1", "-", "0", "5">>

\* Friday
NoDate ==
    <<"F", "r", "i", "d", "a", "y">>

\* a block with every element, its dates in the forms of the first formats
RowFull ==
    Row(Anchor(PressA, HeadA), Elem(HeadA), TimeElem(DashDate, NameDate),
        Elem(SlashDate))

\* a block with every element, its dates in the forms of the second formats
RowSecond ==
    Row(Anchor(PressB, HeadB), Elem(HeadB), TimeElem(NoneText, DotDate),
        Elem(NameDate))

\* a block without a link
RowNoLink == Row(None, Elem(HeadB), TimeElem(DashDate, NameDate), Elem(SlashDate))

\* a block with a link and a title, without time and date elements
RowNoDate == Row(Anchor(PressB, HeadB), Elem(HeadB), None, None)

\* a block whose link has no href attribute and whose dates are no dates
RowNoHref ==
    Row(Anchor(NoneText, HeadA), Elem(HeadA), TimeElem(NoDate, NoDate),
        Elem(NoDate))

PageTwo == Page(<<RowFull, RowSecond>>)

PageGaps == Page(<<RowNoLink, RowNoDate, RowNoHref>>)

HtmlPages == {PageTwo, PageGaps}

\* what requests.get and raise_for_status do when the server answers
\* within the timeout: the page, or an exception of requests
HtmlAnswers ==
    {Return(d) : d \in HtmlPages} \cup {Raise("ConnectionError"), Raise("HTTPError")}

\* what requests.get gives the adapters called by member_scrapers: an
\* answer, or the exception of the timeout
MemberAnswers == {Return(d) : d \in HtmlPages} \cup {Raise("Timeout")}

\* ------------------------------------------------------------------------
\* State
\* ------------------------------------------------------------------------
VARIABLES
    fInput,     \* the argument of remove_generic_urls
    fOut,       \* remove_generic_urls(fInput)
    fOut2,      \* remove_generic_urls(fOut)
    fPc,        \* "input", "once" (fOut is set), "twice" (fOut2 is set)
    fList,      \* the list handed to remove_generic_urls, as the call left it
    urls,       \* Feed.batch: its argument
    i,          \* Feed.batch: the position of the loop in urls
    pc,         \* Feed.batch: "idle", "loop", "fetching", "parsing", "blocked",
                \*   "done" (returned), "raised" (left by an exception)
    request,    \* the requests.get call in flight, or None
    doc,        \* Feed.from_rss: the document open_rss returned, or None
    results,    \* Feed.batch: results
    failures,   \* Feed.batch: failures
    state,      \* per source, where the batch is with it (Pending, Fetching,
                \*   FetchFailed, Parsing, ExtractionFailed, Succeeded)
    fetches,    \* per source, the number of requests issued for it
    served,     \* per source, the document the network served, or None
    origin,     \* per record of results, the position of its source in urls
    calls,      \* the number of calls of Feed.batch so far, this one included
    earlier,    \* whether an earlier call of Feed.batch returned a record or
                \*   a failure
    sUrls,      \* Scraper.media_body: its argument urls
    sPage,      \* Scraper.media_body: its argument page
    sI,         \* Scraper.media_body: the position of the loop in urls
    sPc,        \* Scraper.media_body: "idle", "loop", "fetching", "done"
    sRequest,   \* the requests.get call of open_html in flight, or None
    sResults,   \* Scraper.media_body: results
    sState,     \* per source of media_body, where it is in its life
    sError,     \* per source of media_body, the exception its fetch raised
    sServed,    \* per source of media_body, the page open_html returned, or None
    sOrigin,    \* per record of sResults, the position of its source in sUrls
    mI,         \* Scraper.member_scrapers: the next call of the list literal
    mPc,        \* Scraper.member_scrapers: "idle", "calling", "done", "raised"
    mResults,   \* Scraper.member_scrapers: scraper_results so far
    mOut,       \* Scraper.member_scrapers: the list returned
    mExc,       \* Scraper.member_scrapers: the exception that left it
    call,       \* one call of a function: its name and its arguments
    ret,        \* what the call gave: a value returned or an exception
    cPc         \* the call: "idle", "called", "returned"

filterVars == <<fInput, fOut, fOut2, fPc, fList>>
batchVars ==
    <<urls, i, pc, request, doc, results, failures, state, fetches, served, origin,
      calls, earlier>>
mediaVars ==
    <<sUrls, sPage, sI, sPc, sRequest, sResults, sState, sError, sServed, sOrigin>>
memberVars == <<mI, mPc, mResults, mOut, mExc>>
scraperVars == <<mediaVars, memberVars>>
callVars == <<call, ret, cPc>>
vars == <<filterVars, batchVars, scraperVars, callVars>>

\* ------------------------------------------------------------------------
\* The filter applied to a list, and applied again to its own result
\* ------------------------------------------------------------------------
FilterIdle ==
    /\ fInput = None
    /\ fOut = <<>>
    /\ fOut2 = <<>>
    /\ fPc = "idle"
    /\ fList = None

CallIdle ==
    /\ call = None
    /\ ret = None
    /\ cPc = "idle"

MediaIdle ==
    /\ sUrls = <<>>
    /\ sPage = 0
    /\ sI = 1
    /\ sPc = "idle"
    /\ sRequest = None
    /\ sResults = <<>>
    /\ sState = <<>>
    /\ sError = <<>>
    /\ sServed = <<>>
    /\ sOrigin = <<>>

MemberIdle ==
    /\ mI = 1
    /\ mPc = "idle"
    /\ mResults = <<>>
    /\ mOut = <<>>
    /\ mExc = ""

BatchIdle ==
    /\ urls = <<>>
    /\ i = 1
    /\ pc = "idle"
    /\ request = None
    /\ doc = None
    /\ results = <<>>
    /\ failures = <<>>
    /\ state = <<>>
    /\ fetches = <<>>
    /\ served = <<>>
    /\ origin = <<>>
    /\ calls = 0
    /\ earlier = FALSE

InitFilter ==
    /\ fInput \in FilterInputs
    /\ fOut = <<>>
    /\ fOut2 = <<>>
    /\ fPc = "input"
    /\ fList = fInput
    /\ BatchIdle
    /\ MediaIdle
    /\ MemberIdle
    /\ CallIdle

FilterOnce ==
    /\ fPc = "input"
    /\ fOut' = remove_generic_urls(fList)
    /\ fList' = results_after_filter(fList)
    /\ fPc' = "once"
    /\ UNCHANGED <<fInput, fOut2, batchVars, scraperVars, callVars>>

FilterTwice ==
    /\ fPc = "once"
    /\ fOut2' = remove_generic_urls(PyList(fOut))
    /\ fOut' = results_after_filter(PyList(fOut)).list
    /\ fPc' = "twice"
    /\ UNCHANGED <<fInput, fList, batchVars, scraperVars, callVars>>

NextFilter == FilterOnce \/ FilterTwice

SpecFilter == InitFilter /\ [][NextFilter]_vars

\* ------------------------------------------------------------------------
\* Feed.batch
\* ------------------------------------------------------------------------
\* except Exception: every exception of the model is an Exception
BatchCatchesOnlyValueError(exc) == exc = "ValueError"

BatchCatches(exc) == TRUE

\* results.extend(feed_results), with feed_results put in front instead
ExtendInFront(list, feed_results) == feed_results \o list

\* results.extend(feed_results)
Extend(list, feed_results) == list \o feed_results

\* the except clause with the failure not recorded
RecordFailureForgotten(list, url) == list

\* the url listed twice
RecordFailureTwice(list, url) == Append(Append(list, url), url)

\* failures.append(url)
RecordFailure(list, url) == Append(list, url)

\* the else branch missing: an empty feed is not listed anywhere
EmptyIsIgnored(feed_results) == TRUE

\* if feed_results: the branch of batch that extends results
HasResults(feed_results) == feed_results # <<>>

\* the loop retrying a source that failed
NextSourceRetrying(k, failed) == IF failed THEN k ELSE k + 1

\* for url in urls: the loop goes on to the next url, failed or not
NextSource(k, failed) == k + 1

\* results and failures kept from the call before
ListOfEarlierCall(previous) == previous

\* results = [] and failures = []: each call of batch binds new empty lists,
\* whatever the lists of the call before held
NewList(previous) == <<>>

\* requests.get(url) of open_rss: no timeout argument
OpenRssRequest(url) == [url |-> url, timeout |-> {}]

InitBatch ==
    /\ urls \in SeqsUpTo(FeedUrls, MaxUrls)
    /\ i = 1
    /\ pc = "loop"
    /\ request = None
    /\ doc = None
    /\ results = <<>>
    /\ failures = <<>>
    /\ state = [k \in 1..Len(urls) |-> "Pending"]
    /\ fetches = [k \in 1..Len(urls) |-> 0]
    /\ served = [k \in 1..Len(urls) |-> None]
    /\ origin = <<>>
    /\ calls = 1
    /\ earlier = FALSE
    /\ FilterIdle
    /\ MediaIdle
    /\ MemberIdle
    /\ CallIdle

\* the loop takes the next url: from_rss, open_rss, requests.get is called
BatchFetch ==
    /\ pc = "loop"
    /\ i <= Len(urls)
    /\ request' = OpenRssRequest(urls[i])
    /\ state' = [state EXCEPT ![i] = "Fetching"]
    /\ fetches' = [fetches EXCEPT ![i] = @ + 1]
    /\ pc' = "fetching"
    /\ UNCHANGED <<urls, i, doc, results, failures, served, origin, calls, earlier,
                   filterVars, scraperVars, callVars>>

\* requests.get returns or raises; open_rss returns the document or None; on
\* None from_rss returns [] and batch lists the url in failures
BatchResponse ==
    /\ pc = "fetching"
    /\ \E answer \in FeedAnswers :
         \E d \in {open_rss(answer)} :
             IF d = None
             THEN \E feed_results \in {from_rss(d, urls[i]).value} :
                      /\ results' = IF HasResults(feed_results)
                                    THEN Extend(results, feed_results) ELSE results
                      /\ failures' = IF HasResults(feed_results) THEN failures
                                     ELSE RecordFailure(failures, urls[i])
                      /\ state' = [state EXCEPT ![i] = "FetchFailed"]
                      /\ i' = NextSource(i, TRUE)
                      /\ pc' = "loop"
                      /\ UNCHANGED <<doc, served>>
             ELSE /\ doc' = d
                  /\ served' = [served EXCEPT ![i] = d]
                  /\ state' = [state EXCEPT ![i] = "Parsing"]
                  /\ pc' = "parsing"
                  /\ UNCHANGED <<results, failures, i>>
    /\ request' = None
    /\ UNCHANGED <<urls, fetches, origin, calls, earlier, filterVars, scraperVars, callVars>>

\* the server never answers: requests.get without timeout does not return
BatchNoResponse ==
    /\ pc = "fetching"
    /\ request.timeout = {}
    /\ pc' = "blocked"
    /\ UNCHANGED <<urls, i, request, doc, results, failures, state, fetches, served,
                   origin, calls, earlier, filterVars, scraperVars, callVars>>

\* from_rss parses the document; batch extends results, or lists the url in
\* failures when the list is empty or an exception was raised
BatchParse ==
    /\ pc = "parsing"
    /\ \E r \in {from_rss(doc, urls[i])} :
           IF r.exc = ""
           THEN /\ results' = IF HasResults(r.value) THEN Extend(results, r.value)
                              ELSE results
                /\ origin' = IF HasResults(r.value)
                             THEN Extend(origin, [k \in 1..Len(r.value) |-> i])
                             ELSE origin
                /\ failures' = IF HasResults(r.value) THEN failures
                               ELSE RecordFailure(failures, urls[i])
                /\ state' = [state EXCEPT ![i] = "Succeeded"]
                /\ i' = NextSource(i, ~HasResults(r.value))
                /\ pc' = "loop"
           ELSE IF BatchCatches(r.exc)
           THEN /\ failures' = RecordFailure(failures, urls[i])
                /\ state' = [state EXCEPT ![i] = "ExtractionFailed"]
                /\ i' = NextSource(i, TRUE)
                /\ pc' = "loop"
                /\ UNCHANGED <<results, origin>>
           ELSE /\ pc' = "raised"
                /\ state' = [state EXCEPT ![i] = "ExtractionFailed"]
                /\ UNCHANGED <<results, origin, failures, i>>
    /\ doc' = None
    /\ UNCHANGED <<urls, request, fetches, served, calls, earlier, filterVars, scraperVars,
                   callVars>>

\* the loop is over: return results, failures
BatchReturn ==
    /\ pc = "loop"
    /\ i > Len(urls)
    /\ pc' = "done"
    /\ UNCHANGED <<urls, i, request, doc, results, failures, state, fetches, served,
                   origin, calls, earlier, filterVars, scraperVars, callVars>>

Next == BatchFetch \/ BatchResponse \/ BatchNoResponse \/ BatchParse \/ BatchReturn

Init == InitBatch

Spec == Init /\ [][Next]_vars

\* batch is called again after it has returned: results and failures are
\* bound to new lists and the loop starts over the urls of this call
BatchCall ==
    /\ pc = "done"
    /\ calls < MaxCalls
    /\ urls' \in SeqsUpTo(FeedUrls, MaxUrls)
    /\ results' = NewList(results)
    /\ failures' = NewList(failures)
    /\ i' = 1
    /\ pc' = "loop"
    /\ state' = [k \in 1..Len(urls') |-> "Pending"]
    /\ fetches' = [k \in 1..Len(urls') |-> 0]
    /\ served' = [k \in 1..Len(urls') |-> None]
    /\ origin' = <<>>
    /\ calls' = calls + 1
    /\ earlier' = (earlier \/ results # <<>> \/ failures # <<>>)
    /\ UNCHANGED <<request, doc, filterVars, scraperVars, callVars>>

NextBatches ==
    \/ BatchFetch
    \/ BatchResponse
    \/ BatchNoResponse
    \/ BatchParse
    \/ BatchReturn
    \/ BatchCall

\* calls of Feed.batch one after the other
SpecBatches == InitBatch /\ [][NextBatches]_vars

\* ------------------------------------------------------------------------
\* Scraper.media_body
\* ------------------------------------------------------------------------
\* a url whose page could not be opened, reported in the list returned
PassOverReported(list, url) ==
    Append(list, [source |-> url, reason |-> "FetchFailed"])

\* if not doc: continue -- nothing is kept of the url
PassOver(list, url) == list

\* for url in urls: the next url, whether the page was opened or not
AfterPage(k, opened) == k + 1

\* the urls media_body is called with
ScrapeUrls == {IssaUrl, TenneyUrl}

InitScrape ==
    /\ sUrls \in SeqsUpTo(ScrapeUrls, MaxSources)
    /\ sPage \in {0, 1}
    /\ sI = 1
    /\ sPc = "loop"
    /\ sRequest = None
    /\ sResults = <<>>
    /\ sState = [k \in 1..Len(sUrls) |-> "Pending"]
    /\ sError = [k \in 1..Len(sUrls) |-> ""]
    /\ sServed = [k \in 1..Len(sUrls) |-> None]
    /\ sOrigin = <<>>
    /\ FilterIdle
    /\ BatchIdle
    /\ MemberIdle
    /\ CallIdle

\* the loop takes the next url: open_html calls requests.get
ScrapeFetch ==
    /\ sPc = "loop"
    /\ sI <= Len(sUrls)
    /\ sRequest' = OpenHtmlRequest(MediaBodySourceUrl(sUrls[sI], sPage))
    /\ sState' = [sState EXCEPT ![sI] = "Fetching"]
    /\ sPc' = "fetching"
    /\ UNCHANGED <<sUrls, sPage, sI, sResults, sError, sServed, sOrigin,
                   filterVars, batchVars, memberVars, callVars>>

\* what media_body does with what open_html returned for the url
ScrapePage(answer) ==
    \E page \in {open_html(answer)} :
        IF page = None
        THEN /\ sResults' = PassOver(sResults, sUrls[sI])
             /\ sState' = [sState EXCEPT ![sI] = "FetchFailed"]
             /\ sError' = [sError EXCEPT ![sI] = answer.exc]
             /\ sI' = AfterPage(sI, FALSE)
             /\ UNCHANGED <<sOrigin, sServed>>
        ELSE \E rows \in {MediaBodyPage(page, sUrls[sI])} :
                 /\ sResults' = Extend(sResults, rows)
                 /\ sOrigin' = sOrigin \o [k \in 1..Len(rows) |-> sI]
                 /\ sState' = [sState EXCEPT ![sI] = "Succeeded"]
                 /\ sServed' = [sServed EXCEPT ![sI] = page]
                 /\ sI' = AfterPage(sI, TRUE)
                 /\ UNCHANGED sError

\* the server answers within the timeout
ScrapeResponse ==
    /\ sPc = "fetching"
    /\ \E answer \in HtmlAnswers : ScrapePage(answer)
    /\ sRequest' = None
    /\ sPc' = "loop"
    /\ UNCHANGED <<sUrls, sPage, filterVars, batchVars, memberVars, callVars>>

\* the server does not answer: requests.get raises Timeout when the
\* timeout of the request has passed
ScrapeTimeout ==
    /\ sPc = "fetching"
    /\ sRequest.timeout # {}
    /\ ScrapePage(Raise("Timeout"))
    /\ sRequest' = None
    /\ sPc' = "loop"
    /\ UNCHANGED <<sUrls, sPage, filterVars, batchVars, memberVars, callVars>>

\* return results
ScrapeReturn ==
    /\ sPc = "loop"
    /\ sI > Len(sUrls)
    /\ sPc' = "done"
    /\ UNCHANGED <<sUrls, sPage, sI, sRequest, sResults, sState, sError, sServed,
                   sOrigin,
                   filterVars, batchVars, memberVars, callVars>>

NextScrape == ScrapeFetch \/ ScrapeResponse \/ ScrapeTimeout \/ ScrapeReturn

SpecScrape == InitScrape /\ [][NextScrape]_vars

\* ------------------------------------------------------------------------
\* Scraper.member_scrapers
\* ------------------------------------------------------------------------
\* the methods the class Scraper defines
ScraperMethods ==
    {"open_html", "current_year", "current_month", "house_gop", "member_methods",
     "committee_methods", "member_scrapers", "crapo", "shaheen", "timscott",
     "angusking", "document_query_new", "media_body", "steube", "bera", "meeks",
     "sykes", "barragan", "castor", "marshall", "hawley", "jetlisting_h2",
     "barrasso", "senate_drupal_newscontent", "senate_approps_majority",
     "senate_banking_majority", "recordlist", "article_block", "article_block_h2",
     "article_block_h2_date", "article_span_published", "article_newsblocker",
     "senate_drupal", "elementor_post_date", "react"}

\* the calls of the list literal scraper_results, in the order Python
\* evaluates them
MemberCalls ==
    <<"shaheen", "timscott", "angusking", "document_query_new", "media_body",
      "scanlon", "bera", "meeks", "vanhollen">>

\* the number of pages a call opens with its default arguments
Fetches(name) ==
    CASE name = "document_query_new" -> Len(DocumentQueryDomains)
      [] name = "media_body" -> Len(MediaBodyUrls)
      [] OTHER -> 1

\* cls.name() with the default arguments of the method, given what the
\* network answers to its requests; a name the class does not define is an
\* AttributeError
CallMember(name, answers) ==
    CASE name \notin ScraperMethods -> Raise("AttributeError")
      [] name = "shaheen" -> shaheen(1, answers[1])
      [] name = "timscott" -> timscott(1, answers[1])
      [] name = "angusking" -> angusking(1, answers[1])
      [] name = "document_query_new" ->
            document_query_new(DocumentQueryDomains, 1, answers)
      [] name = "media_body" -> media_body(MediaBodyUrls, 0, answers)
      [] name = "bera" -> bera(1, answers[1])
      [] name = "meeks" -> meeks(0, answers[1])

InitMembers ==
    /\ mI = 1
    /\ mPc = "calling"
    /\ mResults = <<>>
    /\ mOut = <<>>
    /\ mExc = ""
    /\ FilterIdle
    /\ BatchIdle
    /\ MediaIdle
    /\ CallIdle

\* member_scrapers: the next call of the list literal, whose exception
\* nothing catches; after the last call, the flattened list is filtered and
\* returned
MemberScrapers ==
    /\ mPc = "calling"
    /\ IF mI <= Len(MemberCalls)
       THEN \E answers \in [1..Fetches(MemberCalls[mI]) -> MemberAnswers] :
            \E r \in {CallMember(MemberCalls[mI], answers)} :
                IF r.exc # ""
                THEN /\ mPc' = "raised"
                     /\ mExc' = r.exc
                     /\ UNCHANGED <<mI, mResults, mOut>>
                ELSE /\ mResults' = Append(mResults, r.value)
                     /\ mI' = mI + 1
                     /\ UNCHANGED <<mPc, mOut, mExc>>
       ELSE /\ mOut' = remove_generic_urls(PyList(Flatten(mResults)))
            /\ mPc' = "done"
            /\ UNCHANGED <<mI, mResults, mExc>>
    /\ UNCHANGED <<filterVars, batchVars, mediaVars, callVars>>

NextMembers == MemberScrapers

SpecMembers == InitMembers /\ [][NextMembers]_vars

\* ------------------------------------------------------------------------
\* Single calls: one function applied to one input
\* ------------------------------------------------------------------------
\* http://x.gov/dir/r.xml
BaseFile ==
    <<"h", "t", "t", "p", ":", "/", "/", "x", ".", "g", "o", "v", "/", "d", "i",
    "r", "/", "r", ".", "x", "m", "l">>

\* https://x.gov
BaseHost ==
    <<"h", "t", "t", "p", "s", ":", "/", "/", "x", ".", "g", "o", "v">>

\* http://x.gov/news/
BaseNews ==
    <<"h", "t", "t", "p", ":", "/", "/", "x", ".", "g", "o", "v", "/", "n", "e",
    "w", "s", "/">>

\* the urls absolute_link is called with
LinkBases == {BaseFile, BaseHost, BaseNews}

\* how a link found in a document begins: nothing, a path from the root, a
\* path upwards, an authority, a scheme and an authority, the letters http
\* of a file name, a scheme without authority
LinkHeads ==
    {<<>>,
     <<"/">>,
     <<".", ".", "/">>,
     <<"/", "/", "y", ".", "g", "o", "v", "/">>,
     <<"h", "t", "t", "p", ":", "/", "/", "y", ".", "g", "o", "v", "/">>,
     <<"h", "t", "t", "p", "s", ":", "/", "/", "y", ".", "g", "o", "v", "/">>,
     <<"f", "t", "p", ":", "/", "/", "y", ".", "g", "o", "v", "/">>,
     <<"h", "t", "t", "p">>,
     <<"m", "a", "i", "l", "t", "o", ":">>}

\* how it goes on
LinkTails ==
    {<<"a">>,
     <<"n", "e", "w", "s", "/">>,
     <<"a", "?", "q", "=", "1">>,
     <<>>,
     <<"a", "#", "f">>}

\* the links absolute_link is called with
Links == {head \o tail : head \in LinkHeads, tail \in LinkTails}

\* a call of fn with the arguments args
Call(fn, args) == [fn |-> fn, args |-> args]

AbsoluteLinkCalls ==
    {Call("absolute_link", [url |-> base, link |-> link]) :
        base \in LinkBases, link \in Links}

\* /a
RelA ==
    <<"/", "a">>

\* http://y.gov/a
LinkY ==
    <<"h", "t", "t", "p", ":", "/", "/", "y", ".", "g", "o", "v", "/", "a">>

\* http://x.gov/news/
LinkNews ==
    <<"h", "t", "t", "p", ":", "/", "/", "x", ".", "g", "o", "v", "/", "n", "e",
    "w", "s", "/">>

\* 04.15.23
DotsText ==
    <<"0", "4", ".", "1", "5", ".", "2", "3">>

\* May 6, 2023
MonthNameText ==
    <<"M", "a", "y", " ", "6", ",", " ", "2", "0", "2", "3">>

\* http://x.gov/list?Date=01/05/2024
HouseUrlDated ==
    <<"h", "t", "t", "p", ":", "/", "/", "x", ".", "g", "o", "v", "/", "l", "i",
    "s", "t", "?", "D", "a", "t", "e", "=", "0", "1", "/", "0", "5", "/", "2",
    "0", "2", "4">>

\* http://x.gov/list
HouseUrlPlain ==
    <<"h", "t", "t", "p", ":", "/", "/", "x", ".", "g", "o", "v", "/", "l", "i",
    "s", "t">>

\* http://x.gov/list?Date=01/05/2024&x
HouseUrlOdd ==
    <<"h", "t", "t", "p", ":", "/", "/", "x", ".", "g", "o", "v", "/", "l", "i",
    "s", "t", "?", "D", "a", "t", "e", "=", "0", "1", "/", "0", "5", "/", "2",
    "0", "2", "4", "&", "x">>

\* http://mikulski.senate.gov/p/x-2014.cfm
LinkMikulskiOdd ==
    <<"h", "t", "t", "p", ":", "/", "/", "m", "i", "k", "u", "l", "s", "k", "i",
    ".", "s", "e", "n", "a", "t", "e", ".", "g", "o", "v", "/", "p", "/", "x",
    "-", "2", "0", "1", "4", ".", "c", "f", "m">>

\* 2024-02-03T04:05:06Z
IsoZText ==
    <<"2", "0", "2", "4", "-", "0", "2", "-", "0", "3", "T", "0", "4", ":", "0",
    "5", ":", "0", "6", "Z">>

\* 2024-02-03
IsoDayText ==
    <<"2", "0", "2", "4", "-", "0", "2", "-", "0", "3">>


\* the entries of an Atom document: a link with an absolute href, with the
\* href of the index page, with a relative href, without href, on another
\* host, no link element at all; dated by published, by updated, by a text
\* strptime cannot read, or not dated
AtomEntries ==
    {AtomEntry([href |-> LinkA], TitleT1, IsoDateText, NoneText),
     AtomEntry([href |-> LinkA], NoneText, NoneText, IsoDateText2),
     AtomEntry([href |-> LinkA], TitleT1, IsoDateText, GarbageText),
     AtomEntry([href |-> LinkA], TitleT2, NoneText, NoneText),
     AtomEntry([href |-> LinkE1], TitleT1, GarbageText, IsoDateText),
     AtomEntry([href |-> LinkNews], TitleT1, IsoDateText, NoneText),
     AtomEntry([href |-> RelA], TitleT1, IsoDateText, NoneText),
     AtomEntry([href |-> NoneText], TitleT1, IsoDateText, NoneText),
     AtomEntry([href |-> LinkY], TitleT1, IsoDateText, NoneText),
     AtomEntry(None, TitleT1, IsoDateText, NoneText)}

ParseAtomCalls ==
    {Call("parse_atom", [doc |-> Document(TRUE, <<>>, entries), url |-> XFeedUrl]) :
        entries \in SeqsUpTo(AtomEntries, MaxItems)}

\* the links of an RSS item
RssLinks == {LinkA, LinkB, LinkNews, LinkY, LinkMikulski, LinkMikulskiOdd, NoneText}

\* the texts of a pubDate or pubdate element; NoneText for no element
RssDateTexts == {NoneText, <<>>, RfcDateText, GarbageText, OverflowText}

DateFromRssItemCalls ==
    {Call("date_from_rss_item", [item |-> RssItem(link, TitleT1, pubDate, pubdate)]) :
        link \in {LinkA, LinkMikulski, LinkMikulskiOdd, NoneText},
        pubDate \in RssDateTexts,
        pubdate \in RssDateTexts}

\* the items of an RSS document
RssItems ==
    {RssItem(LinkA, NoneText, RfcDateText, NoneText),
     RssItem(LinkA, TitleT1, GarbageText, RfcDateText),
     RssItem(LinkB, TitleT2, NoneText, GarbageText),
     RssItem(LinkB, TitleT2, OverflowText, NoneText),
     RssItem(NoneText, TitleT1, RfcDateText, NoneText),
     RssItem(LinkNews, TitleT1, RfcDateText, NoneText),
     RssItem(<<"/", "n", "e", "w", "s">>, TitleT2, NoneText, NoneText),
     RssItem(LinkY, TitleT3, NoneText, NoneText),
     RssItem(LinkMikulski, TitleT3, NoneText, NoneText)}

ParseRssCalls ==
    {Call("parse_rss", [doc |-> Document(FALSE, items, <<>>), url |-> url]) :
        items \in SeqsUpTo(RssItems, MaxItems), url \in FeedUrls}

\* the first links of a block or of a list: an absolute href, a relative
\* one, the index page, another host, no href
Anchors ==
    {Anchor(LinkA, TitleT1), Anchor(RelA, TitleT2), Anchor(LinkNews, TitleT1),
     Anchor(LinkY, TitleT3), Anchor(NoneText, TitleT1)}

\* the texts of a date element
BlockDateTexts == {DotsText, MonthNameText, GarbageText, <<>>}

\* the div.ArticleBlock of a page of crapo or shaheen: a link, a title, and
\* the same date text in the p and in the time element; blocks that lack
\* one of them
ArticleBlocks ==
    {Row(a, Elem(TitleT2), TimeElem(NoneText, d), Elem(d)) :
        a \in {Anchor(LinkA, TitleT1), Anchor(RelA, TitleT2)}, d \in BlockDateTexts}
    \cup {Row(None, Elem(TitleT2), TimeElem(NoneText, DotsText), Elem(DotsText)),
          Row(Anchor(LinkA, TitleT1), None, None, None),
          Row(Anchor(NoneText, TitleT1), Elem(TitleT2), TimeElem(NoneText, DotsText),
              Elem(DotsText))}

\* what the network answers to the request of an adapter of one page
BlockAnswers ==
    {Return(Page(rows)) : rows \in SeqsUpTo(ArticleBlocks, MaxItems)}
    \cup {Raise("ConnectionError")}

CrapoCalls ==
    {Call("crapo", [page |-> page, answer |-> answer]) :
        page \in {1}, answer \in BlockAnswers}

ShaheenCalls ==
    {Call("shaheen", [page |-> page, answer |-> answer]) :
        page \in {1}, answer \in BlockAnswers}

\* the pages of house_gop: no ul#membernews, or the links of it
HouseAnswers ==
    {Return(HousePage(MemberNews(links))) : links \in SeqsUpTo(Anchors, MaxItems)}
    \cup {Return(HousePage(None)), Raise("ConnectionError")}

HouseGopCalls ==
    {Call("house_gop", [url |-> url, answer |-> answer]) :
        url \in {HouseUrlDated, HouseUrlPlain, HouseUrlOdd}, answer \in HouseAnswers}

\* a post of the JSON of react
Post(node) == JObj([node |-> node])

\* the posts: a node with link, title and date; without link and title; with
\* a null link; with a relative link; with a date that is no ISO date; with
\* a date that is a number; a null node; a post without node; a post that
\* is a string
Posts ==
    {Post(JObj([link |-> JStr(LinkA), title |-> JStr(TitleT1), date |-> JStr(IsoZText)])),
     Post(JObj([link |-> JStr(LinkY), title |-> JStr(TitleT2), date |-> JStr(IsoDayText)])),
     Post(JObj([date |-> JStr(IsoZText)])),
     Post(JObj([link |-> JNull, title |-> JNull, date |-> JNull])),
     Post(JObj([link |-> JStr(RelA), title |-> JStr(TitleT1)])),
     Post(JObj([link |-> JStr(LinkA), title |-> JStr(TitleT1), date |-> JStr(GarbageText)])),
     Post(JObj([link |-> JStr(LinkA), title |-> JStr(TitleT1), date |-> JNum(2024)])),
     Post(JNull),
     JObj([cursor |-> JStr(TitleT1)]),
     JStr(TitleT1)}

\* the JSON of a page with these edges, and with this many queries before
\* the one that holds the posts
NextData(before, edges) ==
    JObj([props |-> JObj([pageProps |-> JObj([dehydratedState |-> JObj([queries |->
        JArr([k \in 1..before |-> JNull]
             \o <<JObj([state |-> JObj([data |-> JObj([posts |->
                     JObj([edges |-> edges])])])])>>)])])])])

\* the pages of react: no script, a script that is no JSON, JSON of another
\* shape (a key missing, too few queries, a list where a dict is expected),
\* and the JSON of a list of posts or of no list
ReactPages ==
    {ReactPage(None), ReactPage(NotJson),
     ReactPage(JsonText(JObj([props |-> JObj([other |-> JNull])]))),
     ReactPage(JsonText(NextData(3, JArr(<<>>)))),
     ReactPage(JsonText(NextData(12, JArr(<<>>)))),
     ReactPage(JsonText(JArr(<<>>))),
     ReactPage(JsonText(NextData(11, JNull)))}
    \cup {ReactPage(JsonText(NextData(11, JArr(posts)))) :
             posts \in SeqsUpTo(Posts, MaxItems)}

\* the page of the second domain
ReactSecondPages ==
    {ReactPage(JsonText(NextData(11, JArr(<<Post(JObj([link |-> JStr(LinkE2),
                                                       title |-> JStr(TitleT3),
                                                       date |-> JStr(IsoDayText)]))>>)))),
     ReactPage(NotJson)}

ReactCalls ==
    {Call("react", [domains |-> ReactDomains, answers |-> <<first, second>>]) :
        first \in {Return(p) : p \in ReactPages} \cup {Raise("ConnectionError")},
        second \in {Return(p) : p \in ReactSecondPages} \cup {Raise("HTTPError")}}

\* the h2 elements of #newscontent: a rooted href with a date in dots, a
\* rooted href with a date in words, a relative href and no date element,
\* an absolute href, a link without href, no link
DrupalH2s ==
    {H2(Anchor(PressA, HeadA), HeadA, Elem(DotDate)),
     H2(Anchor(PressB, HeadB), HeadB, Elem(NameDate)),
     H2(Anchor(PressRel, HeadB), HeadB, None),
     H2(Anchor(LinkY, TitleT1), TitleT1, Elem(DotDate)),
     H2(Anchor(NoneText, HeadA), HeadA, Elem(NoDate)),
     H2(None, HeadA, Elem(DotDate))}

\* what the network answers to a request of senate_drupal
DrupalAnswers ==
    {Return(NewsContent(rows)) : rows \in SeqsUpTo(DrupalH2s, MaxItems)}
    \cup {Raise("ConnectionError")}

\* the answers to the other request of the call
DrupalOtherAnswers ==
    {Return(NewsContent(<<H2(Anchor(PressB, HeadB), HeadB, Elem(DotDate))>>)),
     Raise("HTTPError")}

SenateDrupalCalls ==
    {Call("senate_drupal", [urls |-> list, page |-> 1, answers |-> <<first, second>>]) :
        list \in {SenateDrupalUrls, <<RepublicanLeaderUrl, HoevenUrl>>,
                  <<WarrenUrl, RepublicanLeaderUrl>>},
        first \in DrupalAnswers, second \in DrupalOtherAnswers}
    \cup
    {Call("senate_drupal", [urls |-> list, page |-> 1, answers |-> <<first, second>>]) :
        list \in {SenateDrupalUrls, <<RepublicanLeaderUrl, HoevenUrl>>,
                  <<WarrenUrl, RepublicanLeaderUrl>>},
        first \in DrupalOtherAnswers, second \in DrupalAnswers}

\* document_query_new on its default domains: each of the three requests
\* is answered by a page or fails
DocumentQueryCalls ==
    {Call("document_query_new",
          [domains |-> DocumentQueryDomains, page |-> 1,
           answers |-> <<first, second, third>>]) :
        first \in HtmlAnswers, second \in HtmlAnswers, third \in HtmlAnswers}

CallInputs ==
    AbsoluteLinkCalls \cup ParseAtomCalls \cup ParseRssCalls
    \cup DateFromRssItemCalls \cup CrapoCalls \cup ShaheenCalls
    \cup HouseGopCalls \cup ReactCalls \cup SenateDrupalCalls
    \cup DocumentQueryCalls

InitCalls ==
    /\ call \in CallInputs
    /\ ret = None
    /\ cPc = "called"
    /\ FilterIdle
    /\ BatchIdle
    /\ MediaIdle
    /\ MemberIdle

\* the frame of a call: it returns or raises, nothing else changes
Returns(result) ==
    /\ cPc = "called"
    /\ \E r \in {result} : ret' = r
    /\ cPc' = "returned"
    /\ UNCHANGED <<call, filterVars, batchVars, scraperVars>>

CallAbsoluteLink ==
    /\ call.fn = "absolute_link"
    /\ Returns(absolute_link_call(call.args.url, call.args.link))

CallParseAtom ==
    /\ call.fn = "parse_atom"
    /\ Returns(parse_atom(call.args.doc, call.args.url))

CallParseRss ==
    /\ call.fn = "parse_rss"
    /\ Returns(parse_rss(call.args.doc, call.args.url))

CallDateFromRssItem ==
    /\ call.fn = "date_from_rss_item"
    /\ Returns(date_from_rss_item(call.args.item))

CallCrapo ==
    /\ call.fn = "crapo"
    /\ Returns(crapo(call.args.page, call.args.answer))

CallShaheen ==
    /\ call.fn = "shaheen"
    /\ Returns(shaheen(call.args.page, call.args.answer))

CallHouseGop ==
    /\ call.fn = "house_gop"
    /\ Returns(house_gop(call.args.url, call.args.answer))

CallReact ==
    /\ call.fn = "react"
    /\ Returns(react(call.args.domains, call.args.answers))

CallSenateDrupal ==
    /\ call.fn = "senate_drupal"
    /\ Returns(senate_drupal(call.args.urls, call.args.page, call.args.answers))

CallDocumentQueryNew ==
    /\ call.fn = "document_query_new"
    /\ Returns(document_query_new(call.args.domains, call.args.page,
                                  call.args.answers))

NextCalls ==
    \/ CallAbsoluteLink
    \/ CallParseAtom
    \/ CallParseRss
    \/ CallDateFromRssItem
    \/ CallCrapo
    \/ CallShaheen
    \/ CallHouseGop
    \/ CallReact
    \/ CallSenateDrupal
    \/ CallDocumentQueryNew

SpecCalls == InitCalls /\ [][NextCalls]_vars

\* ------------------------------------------------------------------------
\* Claims about Feed.batch
\* ------------------------------------------------------------------------
Sources == 1..Len(urls)

TerminalStates == {"FetchFailed", "ExtractionFailed", "Succeeded"}

\* the number of records source k contributed to results
Yield(k) == Cardinality({j \in 1..Len(origin) : origin[j] = k})

FetchFailedSources == {k \in Sources : state[k] = "FetchFailed"}
ExtractionFailedSources == {k \in Sources : state[k] = "ExtractionFailed"}
EmptySources == {k \in Sources : state[k] = "Succeeded" /\ Yield(k) = 0}

\* the sources batch has listed in failures, and the place of source k there
ListedSources == FetchFailedSources \cup ExtractionFailedSources \cup EmptySources
PlaceInFailures(k) == Cardinality({m \in ListedSources : m <= k})

\* C1: whatever each source does (fetch failure, malformed document, exception
\* during extraction), batch does not raise, and when it returns every source
\* has been fetched once, and parsed if a document came back: a failure at one
\* position does not keep later positions from being processed.
C1_BatchIsolatesFailures ==
    /\ pc # "raised"
    /\ pc = "done" =>
           \A k \in Sources :
               /\ fetches[k] = 1
               /\ state[k] \in TerminalStates
               /\ served[k] # None => state[k] \in {"ExtractionFailed", "Succeeded"}

\* C1 witness: batch returned after the first source raised OverflowError in
\* extraction and the second was fetched and parsed into records.
C1_Witness ==
    /\ pc = "done"
    /\ Len(urls) = 2
    /\ served[1] = RssDocOverflow
    /\ state[1] = "ExtractionFailed"
    /\ state[2] = "Succeeded"
    /\ Yield(2) > 0

\* C2 as claimed: of N sources of which K fail to fetch, failures has length
\* exactly K and the records come from the other N-K sources only.
C2_FailuresAreFetchFailures ==
    pc = "done" =>
        /\ Len(failures) = Cardinality(FetchFailedSources)
        /\ \A j \in 1..Len(results) : origin[j] \notin FetchFailedSources

\* C2 as amended: failures holds one entry for each source that failed to
\* fetch, each source whose extraction raised and each source that was
\* fetched and parsed into no record; the records come only from sources
\* that were fetched, and carry the URL of their source.
C2_FailuresAreSourcesWithoutRecords ==
    pc = "done" =>
        /\ Len(failures) = Cardinality(FetchFailedSources)
                           + Cardinality(ExtractionFailedSources)
                           + Cardinality(EmptySources)
        /\ \A j \in 1..Len(results) :
               /\ origin[j] \notin FetchFailedSources
               /\ state[origin[j]] = "Succeeded"
               /\ results[j].source = urls[origin[j]]

\* C2 witness: of two sources one fails to fetch and the other is fetched
\* but holds only a link to the index page; both are listed in failures.
C2_Witness ==
    /\ pc = "done"
    /\ Len(urls) = 2
    /\ state[1] = "FetchFailed"
    /\ served[2] = RssDocGeneric
    /\ state[2] = "Succeeded"
    /\ Len(failures) = 2

\* the sources that contributed no record to results
SourcesWithoutRecords == {k \in Sources : Yield(k) = 0}

\* C28: when batch has returned, every position of urls is accounted for
\* once: either it contributed a record to results or its url is listed in
\* failures, once and in the order of urls, never both and never neither; a
\* feed that was fetched and parsed but gave no record is listed.
C28_EverySourceAccountedOnce ==
    pc = "done" =>
        /\ Len(failures) = Cardinality(SourcesWithoutRecords)
        /\ \A k \in SourcesWithoutRecords :
               failures[Cardinality({m \in SourcesWithoutRecords : m <= k})] = urls[k]
        /\ \A k \in Sources : Yield(k) > 0 <=> state[k] = "Succeeded" /\ k \notin EmptySources
        /\ EmptySources \subseteq SourcesWithoutRecords

\* C28 witness: batch returned over the same url given twice; the first
\* time the feed gave records, the second time it was fetched and parsed
\* but held only a link to the index page, and the url is listed once.
C28_Witness ==
    /\ pc = "done"
    /\ Len(urls) = 2
    /\ urls[1] = urls[2]
    /\ Yield(1) > 0
    /\ served[2] = RssDocGeneric
    /\ state[2] = "Succeeded"
    /\ failures = <<urls[2]>>

\* the records from_rss makes of the document source k was served; none
\* when the fetch failed or the extraction raised
FeedRecordsOf(k) ==
    IF served[k] = None THEN <<>>
    ELSE LET r == from_rss(served[k], urls[k])
         IN  IF r.exc = "" THEN r.value ELSE <<>>

\* C24: whatever calls of batch came before, a call of batch returns the
\* records of the documents its own sources were served, in the order of
\* its urls, and the urls of its own sources that gave no record, and
\* nothing else.
C24_BatchStartsFresh ==
    pc = "done" =>
        /\ results = Flatten([k \in 1..Len(urls) |-> FeedRecordsOf(k)])
        /\ Len(failures) = Cardinality({k \in Sources : FeedRecordsOf(k) = <<>>})
        /\ \A k \in Sources :
               FeedRecordsOf(k) = <<>> =>
                   failures[Cardinality({m \in Sources :
                                            m <= k /\ FeedRecordsOf(m) = <<>>})] = urls[k]

\* C24 witness: a second call of batch, over one url whose feed gave
\* records, returned after an earlier call had returned records or failures.
C24_Witness ==
    /\ pc = "done"
    /\ calls = 2
    /\ earlier
    /\ Len(urls) = 1
    /\ results # <<>>
    /\ failures = <<>>

\* the moves of a source within one run
LifecycleEdges ==
    {<<"Pending", "Fetching">>, <<"Fetching", "FetchFailed">>,
     <<"Fetching", "Parsing">>, <<"Parsing", "ExtractionFailed">>,
     <<"Parsing", "Succeeded">>}

\* C5: a source moves only along Pending -> Fetching -> {FetchFailed |
\* Parsing} -> {ExtractionFailed | Succeeded}; it never leaves a terminal
\* state, it is fetched at most once, and only while Pending; when batch
\* returns every source is in a terminal state.
C5_SourceLifecycle ==
    /\ [][\A k \in Sources :
              /\ state'[k] # state[k] => <<state[k], state'[k]>> \in LifecycleEdges
              /\ fetches'[k] # fetches[k] => state[k] = "Pending"]_vars
    /\ [](\A k \in Sources : fetches[k] <= 1)
    /\ [](pc = "done" => \A k \in Sources : state[k] \in TerminalStates)

\* C5 witness: batch returned with one source in FetchFailed and one in
\* ExtractionFailed, each fetched once.
C5_Witness ==
    /\ pc = "done"
    /\ Len(urls) = 2
    /\ state[1] = "FetchFailed"
    /\ state[2] = "ExtractionFailed"
    /\ fetches = <<1, 1>>

\* the items of a served document, and the title a record gets from an item
DocItems(d) == IF d.feed THEN d.entries ELSE d.items
TitleOf(item) == IF item.title = NoneText THEN <<>> ELSE item.title

\* the positions, in the document its source served, of the item record j
\* was made from (the items of one document of the model differ in title)
ItemsOf(j) ==
    {k \in 1..Len(DocItems(served[origin[j]])) :
         TitleOf(DocItems(served[origin[j]])[k]) = results[j].title}

\* C6: results is in source order and, within a source, in document order.
C6_RecordsInSourceThenItemOrder ==
    \A a, b \in 1..Len(results) :
        a < b =>
            \/ origin[a] < origin[b]
            \/ /\ origin[a] = origin[b]
               /\ \E ka \in ItemsOf(a), kb \in ItemsOf(b) : ka < kb

\* C6 witness: batch returned the records of two sources, two items of an
\* RSS document followed by two entries of an Atom document.
C6_Witness ==
    /\ pc = "done"
    /\ Len(urls) = 2
    /\ served[1] = RssDocTwo
    /\ served[2] = AtomDocTwo
    /\ Len(results) = 4
    /\ origin = <<1, 1, 2, 2>>

C8_EveryFetchHasTimeout ==
    /\ request # None => request.timeout # {}
    /\ pc # "blocked"

\* what is claimed of a fetch of batch that has ended: no exception left
\* open_rss, and after a failure from_rss gave no record and nothing was
\* fetched again
C27_EndedFetches ==
    /\ pc # "raised"
    /\ \A k \in Sources :
           state[k] = "FetchFailed" =>
               /\ served[k] = None
               /\ fetches[k] = 1
               /\ Yield(k) = 0

\* C27: a fetch never raises and always ends, with a parsed document or with
\* None, also when the server does not answer (a timeout); after None the
\* caller returns no record and fetches nothing more.
C27_FetchEndsWithDocumentOrNone ==
    /\ C27_EndedFetches
    /\ \A k \in Sources : state[k] = "Fetching" => pc = "fetching"

\* ------------------------------------------------------------------------
\* Claims about Scraper.media_body and Scraper.member_scrapers
\* ------------------------------------------------------------------------
ScrapeSources == 1..Len(sUrls)

\* the sources whose fetch timed out
TimedOutSources ==
    {k \in ScrapeSources : sState[k] = "FetchFailed" /\ sError[k] = "Timeout"}

\* the entries of the list media_body returns that report a failure
FailureEntries == {j \in 1..Len(sResults) : "reason" \in DOMAIN sResults[j]}

\* the records media_body makes of the page source k served; none when the
\* page was not opened
RecordsOfSource(k) ==
    IF sState[k] = "Succeeded" THEN MediaBodyPage(sServed[k], sUrls[k]) ELSE <<>>

\* the records of source k are in the list returned, in their order
RecordsReturned(k) ==
    SelectSeq([j \in 1..Len(sResults) |-> [at |-> j, record |-> sResults[j]]],
              LAMBDA e : e.at <= Len(sOrigin) /\ sOrigin[e.at] = k)

C4_MemberScrapersReturns == mPc # "raised"

\* ------------------------------------------------------------------------
\* Claims about single calls
\* ------------------------------------------------------------------------
\* the call of fn has returned or raised
Returned(fn) == cPc = "returned" /\ call.fn = fn

\* an absolute URL: scheme and authority both present
IsAbsolute(url) ==
    /\ url # NoneText
    /\ UrlParse(url).scheme # <<>>
    /\ UrlParse(url).netloc # <<>>

\* C11: absolute_link(base, link) returns link unchanged when link has a
\* scheme; otherwise it returns an absolute URL whose authority is that of
\* base.
C11_AbsoluteLinkResolves ==
    Returned("absolute_link") =>
        /\ ret.exc = ""
        /\ IF UrlParse(call.args.link).scheme # <<>>
           THEN ret.value = call.args.link
           ELSE /\ IsAbsolute(ret.value)
                /\ UrlParse(ret.value).netloc = UrlParse(call.args.url).netloc

\* the functions that return a list of records
RecordFunctions == {"parse_atom", "parse_rss", "crapo", "shaheen", "house_gop", "react"}

\* a call of one of them has returned its list
ReturnedRecords ==
    /\ cPc = "returned"
    /\ call.fn \in RecordFunctions
    /\ ret.exc = ""

\* C12: every record a feed parser or an adapter returns has a url that is
\* a non-empty absolute URL, with a scheme and an authority, whatever link
\* text or href the document held.
C12_RecordsHaveAbsoluteUrl ==
    ReturnedRecords => \A k \in 1..Len(ret.value) : IsAbsolute(ret.value[k].url)

\* the feeds whose links parse_rss rewrites
RewrittenSources == {BurrFeedUrl, JohannsFeedUrl}

\* C13: in every returned record the domain is a non-empty hostname and is
\* the authority of the url of the record, except for the sources with a
\* rewrite rule of their own.
C13_DomainIsAuthorityOfUrl ==
    (ReturnedRecords /\ ~(call.fn = "parse_rss" /\ call.args.url \in RewrittenSources))
        => \A k \in 1..Len(ret.value) :
               /\ ret.value[k].domain # <<>>
               /\ ret.value[k].url # NoneText
               /\ UrlParse(ret.value[k].url).netloc = ret.value[k].domain

\* the functions that resolve the date of an item from its text
DateFunctions == {"date_from_rss_item", "crapo", "shaheen"}

\* C14: resolving a date never raises: the RSS date extraction returns a
\* date or None for every item, and an adapter returns its records whatever
\* the date texts of the page are.
C14_DateResolutionNeverRaises ==
    (cPc = "returned" /\ call.fn \in DateFunctions) => ret.exc = ""

\* the blocks crapo makes a record of: those with a link
CrapoBlocks(rows) == SelectSeq(rows, LAMBDA row : row.a # None)

\* the blocks shaheen makes a record of: those with a link, a title and a
\* time element
ShaheenBlocks(rows) ==
    SelectSeq(rows, LAMBDA row : row.a # None /\ row.title # None /\ row.time # None)

\* the date of each date text of the pages: 04.15.23 is read by the first
\* format of crapo and, its dots replaced, of shaheen; May 6, 2023 by the
\* second; no format reads the other texts
ResolvedDate(text) ==
    IF text = DotsText THEN Date(2023, 4, 15)
    ELSE IF text = MonthNameText THEN Date(2023, 5, 6)
    ELSE None

\* C15: the date of a record of crapo and of shaheen is what the first
\* format of the adapter that reads the date text gives: 04.15.23 resolves
\* to 2023-04-15 by the first format, a text only the second format reads
\* resolves by the second, and the date is None when no format reads the
\* text or the text is empty or missing.
C15_FirstFormatThatSucceeds ==
    /\ (Returned("crapo") /\ call.args.answer.exc = "") =>
           LET blocks == CrapoBlocks(call.args.answer.value.rows)
           IN  /\ ret.exc = ""
               /\ Len(ret.value) = Len(blocks)
               /\ \A k \in 1..Len(blocks) :
                      ret.value[k].date =
                          IF blocks[k].date = None THEN None
                          ELSE ResolvedDate(blocks[k].date.text)
    /\ (Returned("shaheen") /\ call.args.answer.exc = "") =>
           LET blocks == ShaheenBlocks(call.args.answer.value.rows)
           IN  /\ ret.exc = ""
               /\ Len(ret.value) = Len(blocks)
               /\ \A k \in 1..Len(blocks) :
                      ret.value[k].date = ResolvedDate(blocks[k].time.text)

\* crapo returned the records of a page of two blocks, the first dated
\* 04.15.23 and the second May 6, 2023, each with its date
C15_Witness ==
    /\ Returned("crapo")
    /\ call.args.answer.exc = ""
    /\ Len(call.args.answer.value.rows) = 2
    /\ \A k \in 1..2 : /\ call.args.answer.value.rows[k].a # None
                       /\ call.args.answer.value.rows[k].date # None
    /\ call.args.answer.value.rows[1].date.text = DotsText
    /\ call.args.answer.value.rows[2].date.text = MonthNameText
    /\ ret.exc = ""
    /\ Len(ret.value) = 2
    /\ ret.value[1].date = Date(2023, 4, 15)
    /\ ret.value[2].date = Date(2023, 5, 6)

\* the entries of the document of a call of parse_atom
AtomEntriesOfCall == call.args.doc.entries

\* C16: parse_atom does not fail on the date of an entry: it returns one
\* record for every entry with a link, dated by published or else by
\* updated, and with date None when that text is no ISO-8601 date with
\* offset.
C16_AtomDateNeverFails ==
    Returned("parse_atom") =>
        LET linked == SelectSeq(AtomEntriesOfCall, LAMBDA e : e.link # None)
            text(e) == IF e.published # NoneText THEN e.published ELSE e.updated
            parsed(e) == StrptimeIsoOffset(text(e))
        IN  /\ ret.exc = ""
            /\ Len(ret.value) = Len(linked)
            /\ \A k \in 1..Len(linked) :
                   ret.value[k].date =
                       IF text(linked[k]) = NoneText THEN None
                       ELSE IF parsed(linked[k]).exc = "" THEN parsed(linked[k]).value
                       ELSE None

\* C17: parse_atom returns a record only for an entry whose link element
\* has an href: the urls of the records are the hrefs of those entries, in
\* order, and no record has url None.
C17_AtomEntryNeedsHref ==
    (Returned("parse_atom") /\ ret.exc = "") =>
        LET emitted == SelectSeq(AtomEntriesOfCall,
                                 LAMBDA e : e.link # None /\ e.link.href # NoneText)
        IN  /\ Len(ret.value) = Len(emitted)
            /\ \A k \in 1..Len(emitted) : ret.value[k].url = emitted[k].link.href

\* C18: no record of a list returned by parse_rss or parse_atom has a url
\* whose path is /news/ or /news.
C18_FeedRecordsAreFiltered ==
    (cPc = "returned" /\ call.fn \in {"parse_rss", "parse_atom"} /\ ret.exc = "") =>
        \A k \in 1..Len(ret.value) :
            ret.value[k].url = NoneText \/ UrlParse(ret.value[k].url).path \notin GenericPaths

\* the items of the document of a call of parse_rss that have a link element
LinkedItems == SelectSeq(call.args.doc.items, LAMBDA item : item.link # NoneText)

\* C19 as the specification states it: parse_rss returns one record for
\* every item that has a link element, with the title of the item or the
\* empty string and the host of the feed as domain.
C19_OneRecordPerLinkedItem ==
    Returned("parse_rss") =>
        /\ ret.exc = ""
        /\ Len(ret.value) = Len(LinkedItems)
        /\ \A k \in 1..Len(LinkedItems) :
               /\ ret.value[k].title = TitleOf(LinkedItems[k])
               /\ ret.value[k].domain = UrlParse(call.args.url).netloc

\* C19: when the date extraction raises on an item that has a link,
\* parse_rss raises; otherwise it returns one record, in order, for every
\* item that has a link element and whose url does not have the path /news/
\* or /news, with the title of the item or the empty string, the date of
\* the item and the host of the feed as domain, and no record for any
\* other item. The item with link http://x.gov/a, pubDate Mon, 01 Jan 2024
\* 00:00:00 GMT and no title gives the one record with title '', date
\* 2024-01-01 and domain x.gov.
C19_OneRecordPerLinkedItemKept ==
    Returned("parse_rss") =>
        LET url == call.args.url
            raising == {k \in 1..Len(LinkedItems) :
                           date_from_rss_item(LinkedItems[k]).exc # ""}
            kept == SelectSeq(LinkedItems,
                              LAMBDA item :
                                  UrlParse(RssLink(url, item.link)).path \notin GenericPaths)
        IN  /\ raising # {} => ret.exc # ""
            /\ raising = {} =>
                   /\ ret.exc = ""
                   /\ Len(ret.value) = Len(kept)
                   /\ \A k \in 1..Len(kept) :
                          /\ ret.value[k].url = RssLink(url, kept[k].link)
                          /\ ret.value[k].title = TitleOf(kept[k])
                          /\ ret.value[k].date = date_from_rss_item(kept[k]).value
                          /\ ret.value[k].domain = UrlParse(url).netloc
            /\ (/\ url = XFeedUrl
                /\ call.args.doc.items = <<RssItem(LinkA, NoneText, RfcDateText, NoneText)>>)
                   => ret = Return(<<Record(XFeedUrl, LinkA, <<>>, Date(2024, 1, 1), XGov)>>)

\* parse_rss returned one record for a document of two items, the first
\* without link element, the second the item of the example
C19_Witness ==
    /\ Returned("parse_rss")
    /\ call.args.url = XFeedUrl
    /\ call.args.doc.items = <<RssItem(NoneText, TitleT1, RfcDateText, NoneText),
                               RssItem(LinkA, NoneText, RfcDateText, NoneText)>>
    /\ ret = Return(<<Record(XFeedUrl, LinkA, <<>>, Date(2024, 1, 1), XGov)>>)

\* the date of one step of the date extraction: None when the element is
\* absent or empty or its text cannot be read
StepDate(text) ==
    IF text = NoneText \/ text = <<>> THEN None
    ELSE LET parsed == DateutilParse(text)
         IN  IF parsed.exc = "" THEN parsed.value ELSE None

\* C20: date_from_rss_item gives the date of pubDate, else of pubdate, else
\* of the path of a Mikulski link, a later step only when every earlier one
\* is absent or fails, and None when all fail.
C20_DateStepsInOrder ==
    Returned("date_from_rss_item") =>
        LET item == call.args.item
            first == StepDate(item.pubDate)
            second == StepDate(item.pubdate)
            fallback == MikulskiDate(item)
            third == IF fallback.exc = "" THEN fallback.value ELSE None
        IN  /\ ret.exc = ""
            /\ ret.value = IF first # None THEN first
                           ELSE IF second # None THEN second
                           ELSE third

\* ------------------------------------------------------------------------
\* Claims about the filter
\* ------------------------------------------------------------------------
\* the parts a URL text of the inputs was written from
PartsOfText(u) == {p \in FilterUrlParts : Compose(p) = u}

\* a record the filter is to keep: present, with a 'url' field, and with a
\* URL whose path component is neither '/news/' nor '/news'
C9_Kept(r) ==
    /\ r # None
    /\ "url" \in DOMAIN r
    /\ \A p \in PartsOfText(r.url) : p.path \notin GenericPaths

\* C9: remove_generic_urls returns exactly the input records that are
\* present, have a 'url' field and whose URL path is not '/news/' or '/news',
\* in their input order; a None or empty input gives the empty list.
C9_FilterKeepsExactly ==
    fPc # "input" =>
        fOut = IF fInput = None THEN <<>> ELSE SelectSeq(fInput.list, C9_Kept)

\* C9 witness: the filter has run on [generic URL, release URL, None] and
\* kept the release alone.
C9_Witness ==
    /\ fPc = "once"
    /\ fInput # None
    /\ Len(fInput.list) = 3
    /\ fInput.list[1] = [url |-> Http \o <<":", "/", "/">> \o XGov
                                 \o <<"/", "n", "e", "w", "s", "/">>]
    /\ fInput.list[3] = None
    /\ fOut = <<[url |-> Http \o <<":", "/", "/">> \o XGov
                         \o <<"/", "n", "e", "w", "s", "/", "9">>]>>

\* C10: filtering a filtered list again changes nothing:
\* filter(filter(x)) = filter(x).
C10_FilterIdempotent == fPc = "twice" => fOut2 = fOut

\* C10 witness: a second pass over a result that the first pass shortened
\* and left non-empty.
C10_Witness ==
    /\ fPc = "twice"
    /\ fInput # None
    /\ 0 < Len(fOut)
    /\ Len(fOut) < Len(fInput.list)

RECURSIVE IsSubsequence(_, _)
\* a is b with some of its elements left out
IsSubsequence(a, b) ==
    IF a = <<>> THEN TRUE
    ELSE IF b = <<>> THEN FALSE
    ELSE IF Head(a) = Head(b) THEN IsSubsequence(Tail(a), Tail(b))
    ELSE IsSubsequence(a, Tail(b))

\* C30: remove_generic_urls only removes: what it returns is its input with
\* some elements left out, the others in their order and as they were, and
\* the list it was handed is afterwards what it was before.
C30_FilterOnlyRemoves ==
    fPc # "input" =>
        /\ fList = fInput
        /\ IsSubsequence(fOut, IF fInput = None THEN <<>> ELSE fInput.list)

\* C30 witness: the filter has run on a list of three elements and returned
\* two different records of it, the list handed to it still of three.
C30_Witness ==
    /\ fPc = "once"
    /\ fInput # None
    /\ Len(fInput.list) = 3
    /\ Len(fOut) = 2
    /\ fOut[1] # fOut[2]
    /\ fList # None
    /\ Len(fList.list) = 3

\* the links of the list that house_gop was served, <<>> when the fetch
\* failed or the page has no list
HouseLinks ==
    LET answer == call.args.answer
    IN  IF answer.exc # "" \/ answer.value.membernews = None THEN <<>>
        ELSE answer.value.membernews.a

\* C22: an item that lacks a required element (here the href of a link of
\* house_gop) is skipped on its own: the call does not raise, no record is
\* made of that item, and every other link still has its record unless the
\* filter of generic urls dropped it.
C22_ItemWithoutHrefIsSkipped ==
    Returned("house_gop") =>
        /\ ret.exc = ""
        /\ \A k \in 1..Len(HouseLinks) :
              LET link == HouseLinks[k]
              IN  IF link.href = NoneText
                  THEN \A n \in 1..Len(ret.value) : ret.value[n].url # NoneText
                  ELSE \/ UrlParse(absolute_link(call.args.url, link.href)).path
                              \in GenericPaths
                       \/ \E n \in 1..Len(ret.value) :
                              /\ ret.value[n].url = absolute_link(call.args.url, link.href)
                              /\ ret.value[n].title = Strip(link.text)

\* the script of the page react was served for domain k, None when the fetch
\* failed or the page has no script
ReactScript(k) ==
    IF call.args.answers[k].exc # "" THEN None
    ELSE call.args.answers[k].value.next_data

\* the script of domain k is no JSON, or the fixed key path cannot be
\* followed in it: a key is missing, an index is out of range, or a value
\* on the path is not of the shape the path needs
ReactPathFails(k) ==
    /\ ReactScript(k) # None
    /\ \/ json_loads(ReactScript(k)).exc # ""
       \/ Walk(json_loads(ReactScript(k)).value, ReactPath, 1).exc # ""

\* the records react appends for domain k when nothing leaves its try block
ReactRecordsOf(k) ==
    IF ReactScript(k) = None THEN <<>>
    ELSE ReactTry(ReactScript(k), Https \o call.args.domains[k] \o SlashPress,
                  call.args.domains[k]).records

\* C23: in react a script that is no JSON, a missing key on the key path or
\* a value of the wrong shape on it fails that domain only: the call does
\* not raise, and the records of the domains after it are returned.
C23_ReactPathFailureIsLocal ==
    (Returned("react") /\ ReactPathFails(1)) =>
        /\ ret.exc = ""
        /\ ret.value = ReactRecordsOf(2)

\* C25: crapo returns exactly one record for every div.ArticleBlock that has
\* a link, in the order of the page, its title the text of the link and its
\* domain 'www.crapo.senate.gov': N such blocks give N records.
C25_CrapoOneRecordPerLinkedBlock ==
    (Returned("crapo") /\ call.args.answer.exc = "") =>
        LET blocks == CrapoBlocks(call.args.answer.value.rows)
        IN  /\ ret.exc = ""
            /\ Len(ret.value) = Len(blocks)
            /\ \A k \in 1..Len(blocks) :
                   /\ ret.value[k].title = Strip(blocks[k].a.text)
                   /\ ret.value[k].url = blocks[k].a.href
                   /\ ret.value[k].domain = CrapoDomain

\* C25 witness: crapo was served a page of two blocks with different links,
\* the second without title element, and returned two records, the first
\* titled as the first link and the second as the second.
C25_Witness ==
    /\ Returned("crapo")
    /\ call.args.answer.exc = ""
    /\ Len(call.args.answer.value.rows) = 2
    /\ call.args.answer.value.rows[1].a = Anchor(RelA, TitleT2)
    /\ call.args.answer.value.rows[2].a = Anchor(LinkA, TitleT1)
    /\ call.args.answer.value.rows[2].title = None
    /\ ret.exc = ""
    /\ Len(ret.value) = 2
    /\ ret.value[1].title = TitleT2
    /\ ret.value[2].title = TitleT1
    /\ ret.value[2].domain = CrapoDomain

\* the feed urls that have a rewrite of their own in parse_rss
RewrittenFeeds == {BurrFeedUrl, JohannsFeedUrl}

\* the url parse_rss gives the record of each item it returned a record of:
\* the link resolved against the feed url, replaced by the rewrite of the
\* feed exactly when the feed has one
C26_UrlOfRecords ==
    (Returned("parse_rss") /\ ret.exc = "") =>
        \A n \in 1..Len(ret.value) :
            \E k \in 1..Len(LinkedItems) :
                LET link == LinkedItems[k].link
                IN  ret.value[n].url =
                        IF call.args.url = BurrFeedUrl THEN BurrBase \o link
                        ELSE IF call.args.url = JohannsFeedUrl
                        THEN SubSeq(link, 38, Len(link))
                        ELSE absolute_link(call.args.url, link)

\* C26: parse_rss replaces the resolved link exactly when the feed url is a
\* key of the rewrite table (Burr, Johanns); for every other feed the url
\* of a record is the link resolved against the feed url; and a rewritten
\* url is an absolute URL.
C26_RewriteGivesAbsoluteUrl ==
    /\ C26_UrlOfRecords
    /\ (Returned("parse_rss") /\ ret.exc = "" /\ call.args.url \in RewrittenFeeds) =>
           \A n \in 1..Len(ret.value) : IsAbsolute(ret.value[n].url)

\* the url of the list of the call of senate_drupal that a record came from
DrupalUrlOf(record) ==
    CHOOSE url \in {call.args.urls[k] : k \in 1..Len(call.args.urls)} :
        SenateDrupalSourceUrl(url, call.args.page) = record.source

\* the domain and the host of the url of a record of senate_drupal are
\* those of the republicanleader override for a record of that url, and
\* those of its own url for a record of any other url
DrupalOverrideHolds(record) ==
    IF DrupalUrlOf(record) = RepublicanLeaderUrl
    THEN /\ record.domain = McConnellDomain
         /\ UrlParse(record.url).netloc = RepublicanLeaderDomain
    ELSE /\ record.domain = UrlParse(DrupalUrlOf(record)).netloc
         /\ UrlParse(record.url).netloc = UrlParse(DrupalUrlOf(record)).netloc

\* the h2 elements with a link that senate_drupal was served for url k
DrupalLinkedRows(k) ==
    IF call.args.answers[k].exc # "" THEN <<>>
    ELSE SelectSeq(call.args.answers[k].value.h2_elements,
                   LAMBDA row : row.a # None)

\* every link senate_drupal was served has an href that begins with a slash
DrupalLinksRooted ==
    \A k \in 1..Len(call.args.urls) :
        \A n \in 1..Len(DrupalLinkedRows(k)) :
            /\ DrupalLinkedRows(k)[n].a.href # NoneText
            /\ DrupalLinkedRows(k)[n].a.href # <<>>
            /\ Head(DrupalLinkedRows(k)[n].a.href) = "/"

\* the override on pages whose hrefs all begin with a slash
C29_OverrideOnRootedLinks ==
    (Returned("senate_drupal") /\ DrupalLinksRooted) =>
        /\ ret.exc = ""
        /\ \A n \in 1..Len(ret.value) : DrupalOverrideHolds(ret.value[n])

\* C29: every record senate_drupal makes of the republicanleader url has
\* domain 'mcconnell.senate.gov' and a url whose host is
\* 'www.republicanleader.senate.gov', and every record of another url of
\* the list, before or after it, has the host of its own url as domain and
\* as host of its url.
C29_OverrideDoesNotLeak ==
    Returned("senate_drupal") =>
        /\ ret.exc = ""
        /\ \A n \in 1..Len(ret.value) : DrupalOverrideHolds(ret.value[n])

\* what the adapter of the call returns when it is called for source k of
\* its list alone and the network answers as it did for that source
SourceAlone(k) ==
    IF call.fn = "senate_drupal"
    THEN senate_drupal(<<call.args.urls[k]>>, call.args.page,
                       <<call.args.answers[k]>>)
    ELSE document_query_new(<<call.args.domains[k]>>, call.args.page,
                            <<call.args.answers[k]>>)

\* the adapters of the model that read several domains in one call
MultiDomainAdapters == {"senate_drupal", "document_query_new"}

=============================================================================
